---- MODULE Spec2Model ----
(***************************************************************************)
(* Solar hot-water controller (Node-RED function node, solarnode.js).      *)
(*                                                                         *)
(* One invocation of the function node is one atomic step: the rate        *)
(* limiter, the control-state monitor, main() and the setpoint logger.     *)
(* The shared global context (written by external collaborators), the      *)
(* flow context (ControlState) and the wall clock are the state.           *)
(*                                                                         *)
(* Time: Date.now() is modelled at one-second resolution, as seconds of    *)
(* local time since the epoch, so the code's factor 1000 (ms per second)   *)
(* is 1 here and its division by 1000*60 is a division by 60.              *)
(***************************************************************************)
EXTENDS Integers, Sequences, FiniteSets, TLC

VARIABLES
    clock,          \* the wall clock, Date.now()
    global,         \* Node-RED global context (shared input state)
    flow,           \* Node-RED flow context (ControlState)
    logging,        \* config.logging, fixed at deployment
    inv,            \* what the last invocation read, decided, built and returned
    switch_log      \* history: the last two switch commands sent to the relay

vars == <<clock, global, flow, logging, inv, switch_log>>

----------------------------------------------------------------------------
(* JavaScript values: a type tag, a number and a string.                   *)

Undefined == [t |-> "undefined", n |-> 0, s |-> ""]
Null      == [t |-> "null",      n |-> 0, s |-> ""]
NaN       == [t |-> "number",    n |-> 0, s |-> "NaN"]
Num(k)    == [t |-> "number",    n |-> k, s |-> ""]
Str(x)    == [t |-> "string",    n |-> 0, s |-> x]
Bool(b)   == [t |-> "boolean",   n |-> IF b THEN 1 ELSE 0, s |-> ""]

typeof(v) == IF v.t = "null" THEN "object" ELSE v.t

IsNaN(v) == v.t = "number" /\ v.s = "NaN"

\* ToBoolean: undefined, null, 0, NaN, "" and false are falsy.
Truthy(v) ==
    CASE v.t = "number"  -> ~IsNaN(v) /\ v.n # 0
      [] v.t = "string"  -> v.s # ""
      [] v.t = "boolean" -> v.n = 1
      [] OTHER           -> FALSE

\* v || d
OrDefault(v, d) == IF Truthy(v) THEN v ELSE d

\* ToNumber over the values the model draws: a string of the model is never
\* a numeric literal, so it converts to NaN.
ToNumber(v) ==
    CASE v.t = "number"    -> v
      [] v.t = "boolean"   -> Num(v.n)
      [] v.t = "null"      -> Num(0)
      [] OTHER             -> NaN

\* a < b and a > b: false as soon as either side converts to NaN.
JsLt(a, b) ==
    LET x == ToNumber(a)  y == ToNumber(b)
    IN  ~IsNaN(x) /\ ~IsNaN(y) /\ x.n < y.n

JsGt(a, b) == JsLt(b, a)

\* a - b
JsSub(a, b) ==
    LET x == ToNumber(a)  y == ToNumber(b)
    IN  IF IsNaN(x) \/ IsNaN(y) THEN NaN ELSE Num(x.n - y.n)

\* v == k for a number k (loose equality).
LooseEqNum(v, k) ==
    CASE v.t = "number"  -> ~IsNaN(v) /\ v.n = k
      [] v.t = "boolean" -> v.n = k
      [] OTHER           -> FALSE

----------------------------------------------------------------------------
(* Configuration, solarnode.js lines 3-86.                                 *)

\* Faulty variant: the poor-weather morning triple switches on at a lower
\* temperature than the normal one.
configPoorWeatherLower ==
    [ controller_interval_seconds |-> 30,
      modes |->
        [ morning |->
            [ switch_off_temp |-> 44, switch_on_temp |-> 35, switch_on_s4_temp |-> 40,
              poor_weather |->
                [ switch_off_temp |-> 44, switch_on_temp |-> 30, switch_on_s4_temp |-> 42 ] ],
          daytime |->
            [ switch_off_temp |-> 40, switch_on_temp |-> 28, switch_on_s4_temp |-> 34,
              poor_weather |->
                [ switch_off_temp |-> 40, switch_on_temp |-> 30, switch_on_s4_temp |-> 38 ] ],
          midday |->
            [ switch_off_temp |-> 40, switch_on_temp |-> 25, switch_on_s4_temp |-> 32,
              poor_weather |->
                [ switch_off_temp |-> 40, switch_on_temp |-> 25, switch_on_s4_temp |-> 42 ] ],
          evening_prep |->
            [ switch_off_temp |-> 48, switch_on_temp |-> 40, switch_on_s4_temp |-> 42 ],
          evening_night |->
            [ switch_off_temp |-> 42, switch_on_temp |-> 35, switch_on_s4_temp |-> 38 ],
          super_heat |->
            [ switch_off_temp |-> 60, switch_on_temp |-> 58, switch_on_s4_temp |-> 58 ] ],
      min_time_seconds |-> 600,
      min_switch_interval_minutes |-> 15 ]

config ==
    [ controller_interval_seconds |-> 30,
      modes |->
        [ morning |->
            [ switch_off_temp |-> 44, switch_on_temp |-> 35, switch_on_s4_temp |-> 40,
              poor_weather |->
                [ switch_off_temp |-> 44, switch_on_temp |-> 36, switch_on_s4_temp |-> 42 ] ],
          daytime |->
            [ switch_off_temp |-> 40, switch_on_temp |-> 28, switch_on_s4_temp |-> 34,
              poor_weather |->
                [ switch_off_temp |-> 40, switch_on_temp |-> 30, switch_on_s4_temp |-> 38 ] ],
          midday |->
            [ switch_off_temp |-> 40, switch_on_temp |-> 25, switch_on_s4_temp |-> 32,
              poor_weather |->
                [ switch_off_temp |-> 40, switch_on_temp |-> 25, switch_on_s4_temp |-> 42 ] ],
          evening_prep |->
            [ switch_off_temp |-> 48, switch_on_temp |-> 40, switch_on_s4_temp |-> 42 ],
          evening_night |->
            [ switch_off_temp |-> 42, switch_on_temp |-> 35, switch_on_s4_temp |-> 38 ],
          super_heat |->
            [ switch_off_temp |-> 60, switch_on_temp |-> 58, switch_on_s4_temp |-> 58 ] ],
      min_time_seconds |-> 600,
      min_switch_interval_minutes |-> 15 ]

\* Faulty variant: the two s3 thresholds are exchanged.
TripleExchanged(m) ==
    [ switch_off_temp |-> m.switch_on_temp,
      switch_on_temp |-> m.switch_off_temp,
      switch_on_s4_temp |-> m.switch_on_s4_temp ]

\* The threshold triple of a mode entry (a poor_weather entry is one already).
Triple(m) ==
    [ switch_off_temp |-> m.switch_off_temp,
      switch_on_temp |-> m.switch_on_temp,
      switch_on_s4_temp |-> m.switch_on_s4_temp ]

----------------------------------------------------------------------------
(* Helper functions, solarnode.js lines 88-264.                            *)

\* Date#getHours of a clock value (the clock counts local seconds).
getHours(t) == (t \div 3600) % 24

\* Faulty variant: the comparison made inclusive.
RateLimitedInclusive(now, last_controller_run) ==
    LET last_run == OrDefault(last_controller_run, Num(0))
    IN  now - last_run.n <= config.controller_interval_seconds

\* Line 94: now - last_run < min_interval_ms.
RateLimited(now, last_controller_run) ==
    LET last_run == OrDefault(last_controller_run, Num(0))
    IN  now - last_run.n < config.controller_interval_seconds

\* Faulty variant: the transition is noticed but never stored.
monitorControlStateNeverStores(g, f) ==
    LET energyMgmtActive   == OrDefault(g.energy_management_hws_active, Bool(FALSE))
        disableAutoControl == OrDefault(g.disable_auto_control, Num(0))
        controlState == IF Truthy(energyMgmtActive) THEN "ENERGY_MGMT" ELSE "AUTO_CONTROL"
        lastState    == OrDefault(f.last_hws_control_state, Str("AUTO_CONTROL"))
    IN  [ controlState |-> controlState,
          notice  |-> Str(controlState) # lastState,
          last_hws_control_state |-> f.last_hws_control_state,
          warning |-> Truthy(energyMgmtActive) /\ disableAutoControl # Num(1) ]

\* Faulty variant: the warning ignores disable_auto_control.
monitorControlStateWarnsOnEnergyOnly(g, f) ==
    LET energyMgmtActive   == OrDefault(g.energy_management_hws_active, Bool(FALSE))
        controlState == IF Truthy(energyMgmtActive) THEN "ENERGY_MGMT" ELSE "AUTO_CONTROL"
        lastState    == OrDefault(f.last_hws_control_state, Str("AUTO_CONTROL"))
        changed      == Str(controlState) # lastState
    IN  [ controlState |-> controlState,
          notice  |-> changed,
          last_hws_control_state |->
              IF changed THEN Str(controlState) ELSE f.last_hws_control_state,
          warning |-> Truthy(energyMgmtActive) ]

\* Lines 108-131. Returns the derived state, the value left in
\* last_hws_control_state, and whether the notice and the warning were raised.
monitorControlState(g, f) ==
    LET energyMgmtActive   == OrDefault(g.energy_management_hws_active, Bool(FALSE))
        disableAutoControl == OrDefault(g.disable_auto_control, Num(0))
        controlState == IF Truthy(energyMgmtActive) THEN "ENERGY_MGMT" ELSE "AUTO_CONTROL"
        lastState    == OrDefault(f.last_hws_control_state, Str("AUTO_CONTROL"))
        changed      == Str(controlState) # lastState
    IN  [ controlState |-> controlState,
          notice  |-> changed,
          last_hws_control_state |->
              IF changed THEN Str(controlState) ELSE f.last_hws_control_state,
          warning |-> Truthy(energyMgmtActive) /\ disableAutoControl # Num(1) ]

\* Faulty variant: the last band returns a name config.modes does not hold.
getTimeBasedModeUnknownName(t) ==
    LET hour == getHours(t)
    IN  IF hour >= 5 /\ hour < 8 THEN "morning"
        ELSE IF hour >= 8 /\ hour < 10 THEN "daytime"
        ELSE IF hour >= 10 /\ hour < 14 THEN "midday"
        ELSE IF hour >= 14 /\ hour < 16 THEN "daytime"
        ELSE IF hour >= 16 /\ hour < 20 THEN "evening_prep"
        ELSE "night"

\* Lines 141-158, for the clock value the call reads.
getTimeBasedMode(t) ==
    LET hour == getHours(t)
    IN  IF hour >= 5 /\ hour < 8 THEN "morning"
        ELSE IF hour >= 8 /\ hour < 10 THEN "daytime"
        ELSE IF hour >= 10 /\ hour < 14 THEN "midday"
        ELSE IF hour >= 14 /\ hour < 16 THEN "daytime"
        ELSE IF hour >= 16 /\ hour < 20 THEN "evening_prep"
        ELSE "evening_night"

\* Faulty variant: very cloudy OR low irradiance, as the comment of line 169
\* words it.
VeryCloudyOrLowIrradiance(cloud_cover, solar_irradiance) ==
    JsGt(cloud_cover, Num(95)) \/ JsLt(solar_irradiance, Num(50))

\* Line 173: the numeric rule.
VeryCloudyLowIrradiance(cloud_cover, solar_irradiance) ==
    JsGt(cloud_cover, Num(95)) /\ JsLt(solar_irradiance, Num(50))

\* A key of the global context whose read throws (a failing context store).
ReadThrows == [t |-> "throws", n |-> 0, s |-> ""]

\* One of the three reads of lines 164-166 throws.
WeatherReadThrows(g) ==
    ReadThrows \in { g.weather_cloud_cover, g.weather_solar_irradiance,
                     g.weather_forecast_next_6h }

\* Faulty variant: a failed read counts as poor weather.
WeatherFallbackPoor ==
    [ poor_solar |-> TRUE, cloud_cover |-> Num(0), irradiance |-> Num(0),
      forecast |-> Str("unknown") ]

\* Lines 191-200: the catch branch.
WeatherFallback ==
    [ poor_solar |-> FALSE, cloud_cover |-> Num(0), irradiance |-> Num(0),
      forecast |-> Str("unknown") ]

\* Lines 161-201.
assessWeatherConditions(g) ==
    IF WeatherReadThrows(g) THEN WeatherFallback
    ELSE
    LET cloud_cover      == OrDefault(g.weather_cloud_cover, Num(0))
        solar_irradiance == OrDefault(g.weather_solar_irradiance, Num(0))
        forecast         == OrDefault(g.weather_forecast_next_6h, Str("unknown"))
    IN  [ poor_solar  |-> \/ VeryCloudyLowIrradiance(cloud_cover, solar_irradiance)
                          \/ forecast = Str("overcast"),
          cloud_cover |-> cloud_cover,
          irradiance  |-> solar_irradiance,
          forecast    |-> forecast ]

\* Faulty variant: a reading of exactly 40 counts as usable.
estimateHotWaterLevelInclusive(s2, s3, s4) ==
    LET usable_temp_threshold == Num(40)
    IN  (IF ~JsLt(s4, usable_temp_threshold) THEN 33 ELSE 0)
      + (IF ~JsLt(s3, usable_temp_threshold) THEN 33 ELSE 0)
      + (IF ~JsLt(s2, usable_temp_threshold) THEN 34 ELSE 0)

\* Lines 204-215.
estimateHotWaterLevel(s2, s3, s4) ==
    LET usable_temp_threshold == Num(40)
    IN  (IF JsGt(s4, usable_temp_threshold) THEN 33 ELSE 0)
      + (IF JsGt(s3, usable_temp_threshold) THEN 33 ELSE 0)
      + (IF JsGt(s2, usable_temp_threshold) THEN 34 ELSE 0)

\* Faulty variant: the two margins carry the opposite sign.
createSetpointLogMarginsReversed(mode_name, thresholds, weather, hot_water_level, s2_temp, s3_temp, s4_temp, hourRead, stampRead) ==
    [ mode |-> mode_name,
      switch_off_temp   |-> thresholds.switch_off_temp,
      switch_on_temp    |-> thresholds.switch_on_temp,
      switch_on_s4_temp |-> thresholds.switch_on_s4_temp,
      hot_water_level_pct |-> hot_water_level,
      cloud_cover_pct   |-> weather.cloud_cover,
      solar_irradiance  |-> weather.irradiance,
      weather_forecast  |-> weather.forecast,
      poor_weather_mode |-> weather.poor_solar,
      s2_current |-> s2_temp,
      s3_current |-> s3_temp,
      s4_current |-> s4_temp,
      margin_to_switch_on  |-> JsSub(s3_temp, Num(thresholds.switch_on_temp)),
      margin_to_switch_off |-> JsSub(Num(thresholds.switch_off_temp), s3_temp),
      hour_of_day |-> getHours(hourRead),
      timestamp   |-> stampRead ]

\* Lines 218-250; hour and timestamp are the two clock reads of lines 245-246.
createSetpointLog(mode_name, thresholds, weather, hot_water_level, s2_temp, s3_temp, s4_temp, hourRead, stampRead) ==
    [ mode |-> mode_name,
      switch_off_temp   |-> thresholds.switch_off_temp,
      switch_on_temp    |-> thresholds.switch_on_temp,
      switch_on_s4_temp |-> thresholds.switch_on_s4_temp,
      hot_water_level_pct |-> hot_water_level,
      cloud_cover_pct   |-> weather.cloud_cover,
      solar_irradiance  |-> weather.irradiance,
      weather_forecast  |-> weather.forecast,
      poor_weather_mode |-> weather.poor_solar,
      s2_current |-> s2_temp,
      s3_current |-> s3_temp,
      s4_current |-> s4_temp,
      margin_to_switch_on  |-> JsSub(Num(thresholds.switch_on_temp), s3_temp),
      margin_to_switch_off |-> JsSub(s3_temp, Num(thresholds.switch_off_temp)),
      hour_of_day |-> getHours(hourRead),
      timestamp   |-> stampRead ]

\* Faulty variant: poor_weather_mode is not compared.
setpointsChangedIgnoresWeather(current_log, last_log) ==
    IF last_log = Undefined THEN TRUE
    ELSE \/ last_log.mode # current_log.mode
         \/ last_log.switch_off_temp # current_log.switch_off_temp
         \/ last_log.switch_on_temp # current_log.switch_on_temp
         \/ last_log.switch_on_s4_temp # current_log.switch_on_s4_temp

\* Lines 253-264.
setpointsChanged(current_log, last_log) ==
    IF last_log = Undefined THEN TRUE
    ELSE \/ last_log.mode # current_log.mode
         \/ last_log.switch_off_temp # current_log.switch_off_temp
         \/ last_log.switch_on_temp # current_log.switch_on_temp
         \/ last_log.switch_on_s4_temp # current_log.switch_on_s4_temp
         \/ last_log.poor_weather_mode # current_log.poor_weather_mode

----------------------------------------------------------------------------
(* The inbound message. msg.payload is an object with the sensor fields,   *)
(* or absent; main() overwrites it with the command number when it emits.  *)

Payload(s2, s3, s4, time) ==
    [ kind |-> "object", value |-> 0, s2 |-> s2, s3 |-> s3, s4 |-> s4, time |-> time ]

NoPayload ==
    [ kind |-> "undefined", value |-> 0,
      s2 |-> Undefined, s3 |-> Undefined, s4 |-> Undefined, time |-> Undefined ]

NumberPayload(k) ==
    [ kind |-> "number", value |-> k,
      s2 |-> Undefined, s3 |-> Undefined, s4 |-> Undefined, time |-> Undefined ]

\* msg.payload.<k>: a property read of a number primitive is undefined; of an
\* absent payload it throws (PropertyReadThrows).
Field(p, k) == IF p.kind = "object" THEN p[k] ELSE Undefined

PropertyReadThrows(p) == p.kind = "undefined"

----------------------------------------------------------------------------
(* main(), solarnode.js lines 271-391.                                     *)

NoThresholds == [ switch_off_temp |-> 0, switch_on_temp |-> 0, switch_on_s4_temp |-> 0 ]

\* Faulty variant: the guard is missing.
AutoControlDisabledNever(disable_auto_control) == FALSE

\* Faulty variant: the flag compared with === true.
AutoControlDisabledStrictBoolean(disable_auto_control) == disable_auto_control = Bool(TRUE)

\* Line 278: disable_auto_control == 1.
AutoControlDisabled(disable_auto_control) == LooseEqNum(disable_auto_control, 1)

\* Faulty variant: only the two sensors the decision reads are validated.
SensorDataInvalidS3S4Only(s2_temp, s3_temp, s4_temp) ==
    \/ s3_temp = Undefined \/ s4_temp = Undefined
    \/ typeof(s3_temp) # "number" \/ typeof(s4_temp) # "number"

\* Lines 294-295.
SensorDataInvalid(s2_temp, s3_temp, s4_temp) ==
    \/ s2_temp = Undefined \/ s3_temp = Undefined \/ s4_temp = Undefined
    \/ typeof(s2_temp) # "number" \/ typeof(s3_temp) # "number" \/ typeof(s4_temp) # "number"

\* Line 318: the modes whose poor_weather triple main() uses.
MainWeatherSensitive(mode_name) == mode_name = "morning" \/ mode_name = "daytime"

\* Faulty variant: the override is recognised only as the boolean true.
MainThresholdsSuperHeatStrict(super_heat, modeRead, g) ==
    IF super_heat = Bool(TRUE)
    THEN [ mode_name |-> "super_heat", thresholds |-> Triple(config.modes.super_heat) ]
    ELSE LET mode_name == getTimeBasedMode(modeRead)
             weather   == assessWeatherConditions(g)
         IN  [ mode_name  |-> mode_name,
               thresholds |->
                   IF MainWeatherSensitive(mode_name) /\ weather.poor_solar
                   THEN Triple(config.modes[mode_name].poor_weather)
                   ELSE Triple(config.modes[mode_name]) ]

\* Lines 306-329: the mode and thresholds main() decides with.
MainThresholds(super_heat, modeRead, g) ==
    IF LooseEqNum(super_heat, 1)
    THEN [ mode_name |-> "super_heat", thresholds |-> Triple(config.modes.super_heat) ]
    ELSE LET mode_name == getTimeBasedMode(modeRead)
             weather   == assessWeatherConditions(g)
         IN  [ mode_name  |-> mode_name,
               thresholds |->
                   IF MainWeatherSensitive(mode_name) /\ weather.poor_solar
                   THEN Triple(config.modes[mode_name].poor_weather)
                   ELSE Triple(config.modes[mode_name]) ]

\* Faulty variant: the interval in minutes compared with seconds.
SwitchBlockedSecondsForMinutes(gateRead, last_element_switch_time) ==
    LET last_switch_time == OrDefault(last_element_switch_time, Num(0))
    IN  gateRead - last_switch_time.n < config.min_switch_interval_minutes

\* Faulty variant: once the element has been switched, the gate never opens
\* again.
SwitchBlockedOnceSwitched(gateRead, last_element_switch_time) ==
    last_element_switch_time # Undefined

\* Faulty variant: no gate, as in the controller before anti-cycling was added.
SwitchBlockedNever(gateRead, last_element_switch_time) == FALSE

\* Lines 340-343 and 366-369: the anti-cycling gate, for the clock value it reads.
SwitchBlocked(gateRead, last_element_switch_time) ==
    LET last_switch_time == OrDefault(last_element_switch_time, Num(0))
    IN  gateRead - last_switch_time.n < config.min_switch_interval_minutes * 60

\* Faulty variant: the element state is not consulted.
SwitchOffConditionAnyElement(hot_water_element, s3_temp, thresholds) ==
    JsGt(s3_temp, Num(thresholds.switch_off_temp))

\* Line 338.
SwitchOffCondition(hot_water_element, s3_temp, thresholds) ==
    /\ LooseEqNum(hot_water_element, 1)
    /\ JsGt(s3_temp, Num(thresholds.switch_off_temp))

\* Faulty variant: the element state is not consulted before switching on.
SwitchOnConditionAnyElement(hot_water_element, time_seconds, s3_temp, s4_temp, thresholds) ==
    /\ JsGt(time_seconds, Num(config.min_time_seconds))
    /\ JsLt(s3_temp, Num(thresholds.switch_on_temp))
    /\ JsLt(s4_temp, Num(thresholds.switch_on_s4_temp))

\* Faulty variant: the s4 interlock is missing.
SwitchOnConditionNoInterlock(hot_water_element, time_seconds, s3_temp, s4_temp, thresholds) ==
    /\ LooseEqNum(hot_water_element, 0)
    /\ JsGt(time_seconds, Num(config.min_time_seconds))
    /\ JsLt(s3_temp, Num(thresholds.switch_on_temp))

\* Faulty variant: the uptime condition is missing.
SwitchOnConditionNoUptime(hot_water_element, time_seconds, s3_temp, s4_temp, thresholds) ==
    /\ LooseEqNum(hot_water_element, 0)
    /\ JsLt(s3_temp, Num(thresholds.switch_on_temp))
    /\ JsLt(s4_temp, Num(thresholds.switch_on_s4_temp))

\* Lines 360-363.
SwitchOnCondition(hot_water_element, time_seconds, s3_temp, s4_temp, thresholds) ==
    /\ LooseEqNum(hot_water_element, 0)
    /\ JsGt(time_seconds, Num(config.min_time_seconds))
    /\ JsLt(s3_temp, Num(thresholds.switch_on_temp))
    /\ JsLt(s4_temp, Num(thresholds.switch_on_s4_temp))

\* What main() leaves behind: whether it threw, how it returned ("undefined"
\* for `return;`, "null", "msg" for `return msg`, "threw"), msg.payload
\* afterwards, last_element_switch_time afterwards, and the locals the
\* decision used.
MainOutcome(threw, ret, payload, last_switch, decided, resolved, blocked) ==
    [ threw |-> threw, ret |-> ret, payload |-> payload,
      last_element_switch_time |-> last_switch,
      decided |-> decided, mode_name |-> resolved.mode_name,
      thresholds |-> resolved.thresholds, blocked |-> blocked ]

Unresolved == [ mode_name |-> "", thresholds |-> NoThresholds ]

\* Faulty variant: main() also stands down while energy management holds
\* the element.
mainDefersToEnergyManagement(g, f, payload, modeRead, gateRead, stampRead) ==
    LET disable_auto_control == OrDefault(g.disable_auto_control, Num(0))
        hot_water_element    == OrDefault(g.hot_water_element, Num(0))
        super_heat           == OrDefault(g.super_heat, Num(0))
        s2_temp      == Field(payload, "s2")
        s3_temp      == Field(payload, "s3")
        s4_temp      == Field(payload, "s4")
        time_seconds == Field(payload, "time")
        resolved     == MainThresholds(super_heat, modeRead, g)
        thresholds   == resolved.thresholds
        last         == f.last_element_switch_time
    IN  IF \/ AutoControlDisabled(disable_auto_control)
           \/ Truthy(g.energy_management_hws_active)
        THEN MainOutcome(FALSE, "undefined", payload, last, FALSE, Unresolved, FALSE)
        ELSE IF PropertyReadThrows(payload)
        THEN MainOutcome(TRUE, "threw", payload, last, FALSE, Unresolved, FALSE)
        ELSE IF SensorDataInvalid(s2_temp, s3_temp, s4_temp)
        THEN MainOutcome(FALSE, "null", payload, last, FALSE, Unresolved, FALSE)
        ELSE IF SwitchOffCondition(hot_water_element, s3_temp, thresholds)
        THEN IF SwitchBlocked(gateRead, last)
             THEN MainOutcome(FALSE, "null", payload, last, TRUE, resolved, TRUE)
             ELSE MainOutcome(FALSE, "msg", NumberPayload(0), Num(stampRead), TRUE, resolved, FALSE)
        ELSE IF SwitchOnCondition(hot_water_element, time_seconds, s3_temp, s4_temp, thresholds)
        THEN IF SwitchBlocked(gateRead, last)
             THEN MainOutcome(FALSE, "null", payload, last, TRUE, resolved, TRUE)
             ELSE MainOutcome(FALSE, "msg", NumberPayload(1), Num(stampRead), TRUE, resolved, FALSE)
        ELSE MainOutcome(FALSE, "null", payload, last, TRUE, resolved, FALSE)

\* Faulty variant: last_element_switch_time is stored before the gate is
\* consulted, so a vetoed decision stores it too.
mainStampsOnVeto(g, f, payload, modeRead, gateRead, stampRead) ==
    LET disable_auto_control == OrDefault(g.disable_auto_control, Num(0))
        hot_water_element    == OrDefault(g.hot_water_element, Num(0))
        super_heat           == OrDefault(g.super_heat, Num(0))
        s2_temp      == Field(payload, "s2")
        s3_temp      == Field(payload, "s3")
        s4_temp      == Field(payload, "s4")
        time_seconds == Field(payload, "time")
        resolved     == MainThresholds(super_heat, modeRead, g)
        thresholds   == resolved.thresholds
        last         == f.last_element_switch_time
    IN  IF AutoControlDisabled(disable_auto_control)
        THEN MainOutcome(FALSE, "undefined", payload, last, FALSE, Unresolved, FALSE)
        ELSE IF PropertyReadThrows(payload)
        THEN MainOutcome(TRUE, "threw", payload, last, FALSE, Unresolved, FALSE)
        ELSE IF SensorDataInvalid(s2_temp, s3_temp, s4_temp)
        THEN MainOutcome(FALSE, "null", payload, last, FALSE, Unresolved, FALSE)
        ELSE IF SwitchOffCondition(hot_water_element, s3_temp, thresholds)
        THEN IF SwitchBlocked(gateRead, last)
             THEN MainOutcome(FALSE, "null", payload, Num(stampRead), TRUE, resolved, TRUE)
             ELSE MainOutcome(FALSE, "msg", NumberPayload(0), Num(stampRead), TRUE, resolved, FALSE)
        ELSE IF SwitchOnCondition(hot_water_element, time_seconds, s3_temp, s4_temp, thresholds)
        THEN IF SwitchBlocked(gateRead, last)
             THEN MainOutcome(FALSE, "null", payload, Num(stampRead), TRUE, resolved, TRUE)
             ELSE MainOutcome(FALSE, "msg", NumberPayload(1), Num(stampRead), TRUE, resolved, FALSE)
        ELSE MainOutcome(FALSE, "null", payload, last, TRUE, resolved, FALSE)

\* Lines 271-391.
main(g, f, payload, modeRead, gateRead, stampRead) ==
    LET disable_auto_control == OrDefault(g.disable_auto_control, Num(0))
        hot_water_element    == OrDefault(g.hot_water_element, Num(0))
        super_heat           == OrDefault(g.super_heat, Num(0))
        s2_temp      == Field(payload, "s2")
        s3_temp      == Field(payload, "s3")
        s4_temp      == Field(payload, "s4")
        time_seconds == Field(payload, "time")
        resolved     == MainThresholds(super_heat, modeRead, g)
        thresholds   == resolved.thresholds
        last         == f.last_element_switch_time
    IN  IF AutoControlDisabled(disable_auto_control)
        THEN MainOutcome(FALSE, "undefined", payload, last, FALSE, Unresolved, FALSE)
        ELSE IF PropertyReadThrows(payload)
        THEN MainOutcome(TRUE, "threw", payload, last, FALSE, Unresolved, FALSE)
        ELSE IF SensorDataInvalid(s2_temp, s3_temp, s4_temp)
        THEN MainOutcome(FALSE, "null", payload, last, FALSE, Unresolved, FALSE)
        ELSE IF SwitchOffCondition(hot_water_element, s3_temp, thresholds)
        THEN IF SwitchBlocked(gateRead, last)
             THEN MainOutcome(FALSE, "null", payload, last, TRUE, resolved, TRUE)
             ELSE MainOutcome(FALSE, "msg", NumberPayload(0), Num(stampRead), TRUE, resolved, FALSE)
        ELSE IF SwitchOnCondition(hot_water_element, time_seconds, s3_temp, s4_temp, thresholds)
        THEN IF SwitchBlocked(gateRead, last)
             THEN MainOutcome(FALSE, "null", payload, last, TRUE, resolved, TRUE)
             ELSE MainOutcome(FALSE, "msg", NumberPayload(1), Num(stampRead), TRUE, resolved, FALSE)
        ELSE MainOutcome(FALSE, "null", payload, last, TRUE, resolved, FALSE)

----------------------------------------------------------------------------
(* The decision of the legacy controller, part_000 lines 129-205, for the  *)
(* thresholds it has resolved: no sensor validation and no anti-cycling    *)
(* gate. Returns whether it threw, how it returned and the command.        *)

legacyMain(g, payload, thresholds) ==
    LET disable_auto_control == OrDefault(g.disable_auto_control, Num(0))
        hot_water_element    == OrDefault(g.hot_water_element, Num(0))
        s3_temp      == Field(payload, "s3")
        s4_temp      == Field(payload, "s4")
        time_seconds == Field(payload, "time")
    IN  IF LooseEqNum(disable_auto_control, 1)
        THEN [ threw |-> FALSE, ret |-> "undefined", value |-> 0 ]
        ELSE IF payload.kind = "undefined"
        THEN [ threw |-> TRUE, ret |-> "threw", value |-> 0 ]
        ELSE IF /\ LooseEqNum(hot_water_element, 1)
                /\ JsGt(s3_temp, Num(thresholds.switch_off_temp))
        THEN [ threw |-> FALSE, ret |-> "msg", value |-> 0 ]
        ELSE IF /\ LooseEqNum(hot_water_element, 0)
                /\ JsGt(time_seconds, Num(600))
                /\ JsLt(s3_temp, Num(thresholds.switch_on_temp))
                /\ JsLt(s4_temp, Num(thresholds.switch_on_s4_temp))
        THEN [ threw |-> FALSE, ret |-> "msg", value |-> 1 ]
        ELSE [ threw |-> FALSE, ret |-> "undefined", value |-> 0 ]

----------------------------------------------------------------------------
(* Setpoint logging, solarnode.js lines 401-473.                           *)

NoMsg == [ kind |-> "none" ]

\* Line 422: the modes whose poor_weather triple the logger uses.
LoggerWeatherSensitive(time_mode) ==
    time_mode = "morning" \/ time_mode = "daytime" \/ time_mode = "midday"

\* Lines 417-427.
LoggerThresholds(super_heat, thrRead, weather) ==
    IF LooseEqNum(super_heat, 1)
    THEN Triple(config.modes.super_heat)
    ELSE LET time_mode == getTimeBasedMode(thrRead)
         IN  IF LoggerWeatherSensitive(time_mode) /\ weather.poor_solar
             THEN Triple(config.modes[time_mode].poor_weather)
             ELSE Triple(config.modes[time_mode])

\* Line 431: the logger's own validity check.
LoggerSensorsPresent(s2_temp, s3_temp, s4_temp) ==
    s2_temp # Undefined /\ s3_temp # Undefined /\ s4_temp # Undefined

\* Lines 401-470, on msg.payload as main() left it. Returns whether it threw,
\* the message for the second output, last_setpoint_log afterwards and the
\* record it built (null when it built none).
SetpointLogging(g, f, lg, payload, currentControlState, modeRead, thrRead, hourRead, stampRead) ==
    LET super_heat == OrDefault(g.super_heat, Num(0))
        mode_name  == IF LooseEqNum(super_heat, 1) THEN "super_heat"
                      ELSE getTimeBasedMode(modeRead)
        weather    == assessWeatherConditions(g)
        s2_temp    == Field(payload, "s2")
        s3_temp    == Field(payload, "s3")
        s4_temp    == Field(payload, "s4")
        hot_water_level    == estimateHotWaterLevel(s2_temp, s3_temp, s4_temp)
        current_thresholds == LoggerThresholds(super_heat, thrRead, weather)
        built        == LoggerSensorsPresent(s2_temp, s3_temp, s4_temp)
        setpoint_log ==
            createSetpointLog(mode_name, current_thresholds, weather, hot_water_level,
                              s2_temp, s3_temp, s4_temp, hourRead, stampRead)
            @@ [ control_state |-> currentControlState,
                 energy_mgmt_active |->
                     OrDefault(g.energy_management_hws_active, Bool(FALSE)),
                 disable_auto_control |-> OrDefault(g.disable_auto_control, Num(0)) ]
        should_log ==
            /\ built
            /\ lg.log_on_change_only => setpointsChanged(setpoint_log, f.last_setpoint_log)
        quiet(log) == [ threw |-> FALSE, out2 |-> NoMsg,
                        last_setpoint_log |-> f.last_setpoint_log, setpoint_log |-> log ]
    IN  IF ~lg.log_setpoints THEN quiet(Null)
        ELSE IF PropertyReadThrows(payload) THEN [ quiet(Null) EXCEPT !.threw = TRUE ]
        ELSE IF ~built THEN quiet(Null)
        ELSE IF ~should_log THEN quiet(setpoint_log)
        ELSE [ threw |-> FALSE,
               out2  |-> [ kind |-> "msg", payload |-> setpoint_log,
                           topic |-> "solarHW_setpoints" ],
               last_setpoint_log |->
                   IF lg.log_on_change_only THEN setpoint_log ELSE f.last_setpoint_log,
               setpoint_log |-> setpoint_log ]

----------------------------------------------------------------------------
(* The environment: the clock and the collaborators that write the global  *)
(* context.                                                                *)

\* Bounds of the model.
NumClockPoints == 5
NumMessages    == 8
NumWeather     == 1
MaxJitter      == 1

\* 09:45:00 local time on a day of the epoch; 10:00 (daytime -> midday) is
\* 900 s later.
StartOfRun == 20000 * 86400 + 9 * 3600 + 45 * 60

ClockOffsets == << 0, 29, 30, 899, 900, 1800, 930, 1799 >>

ClockPoints ==
    { StartOfRun + ClockOffsets[i] :
        i \in { j \in 1..Len(ClockOffsets) : j <= NumClockPoints } }

\* Messages the sensor node may deliver (s2, s3, s4, uptime).
Messages ==
    << Payload(Num(20), Num(20), Num(20), Num(700)),
       Payload(Num(61), Num(61), Num(61), Num(700)),
       Payload(Num(20), Num(20), Num(34), Num(700)),
       Payload(Num(20), Str("not a number"), Num(20), Num(700)),
       Payload(Undefined, Num(20), Num(20), Num(700)),
       Payload(Num(20), Num(20), Num(20), Num(600)),
       Payload(Num(20), Num(20), Num(20), Undefined),
       NoPayload,
       Payload(Num(41), Num(41), Num(41), Num(700)),
       Payload(Num(20), Num(20), Null, Num(700)) >>

MessageSet == { Messages[i] : i \in { j \in 1..Len(Messages) : j <= NumMessages } }

\* Weather snapshots the weather pipeline may publish (cloud, irradiance, forecast).
WeatherSnapshots ==
    << << Num(96), Num(40), Str("clear") >>,
       << Num(25), Num(450), Str("overcast") >>,
       << Num(25), Num(450), Str("partly_cloudy") >>,
       << Num(96), Num(75), Str("clear") >> >>

WeatherSet == { WeatherSnapshots[i] : i \in { j \in 1..Len(WeatherSnapshots) : j <= NumWeather } }

FlagKeys == { "disable_auto_control", "super_heat" }

Idle ==
    [ result |-> "idle", payload |-> NoPayload, now |-> 0,
      notice |-> FALSE, warning |-> FALSE, control_state |-> "",
      decided |-> FALSE, blocked |-> FALSE, mode_name |-> "", thresholds |-> NoThresholds,
      gate |-> 0, main_return |-> "", out1 |-> NoMsg, out2 |-> NoMsg,
      setpoint_log |-> Null ]

Init ==
    /\ clock = StartOfRun
    /\ global = [ disable_auto_control |-> Undefined,
                  hot_water_element |-> Undefined,
                  super_heat |-> Undefined,
                  energy_management_hws_active |-> Undefined,
                  weather_cloud_cover |-> Undefined,
                  weather_solar_irradiance |-> Undefined,
                  weather_forecast_next_6h |-> Undefined ]
    /\ flow = [ last_controller_run |-> Undefined,
                last_element_switch_time |-> Undefined,
                last_hws_control_state |-> Undefined,
                last_setpoint_log |-> Undefined ]
    /\ logging = [ log_setpoints |-> TRUE, log_on_change_only |-> FALSE ]
    /\ inv = Idle
    /\ switch_log = << >>

\* Time passes between invocations.
Tick ==
    /\ \E t \in ClockPoints : t > clock /\ clock' = t
    /\ inv' = Idle
    /\ UNCHANGED <<global, flow, logging, switch_log>>

\* The relay collaborator reports the element state.
WriteElement ==
    /\ \E v \in { Num(0), Num(1) } : global' = [ global EXCEPT !.hot_water_element = v ]
    /\ inv' = Idle
    /\ UNCHANGED <<clock, flow, logging, switch_log>>

\* A collaborator (dashboard, energy management) sets a flag, or removes it
\* from the context (global.set(key, undefined)).
WriteFlag ==
    /\ \E k \in FlagKeys, v \in { Num(1), Undefined } : global' = [ global EXCEPT ![k] = v ]
    /\ inv' = Idle
    /\ UNCHANGED <<clock, flow, logging, switch_log>>

\* The energy-management collaborator claims or releases the element.
WriteEnergyManagement ==
    /\ \E v \in { Bool(TRUE), Undefined } :
          global' = [ global EXCEPT !.energy_management_hws_active = v ]
    /\ inv' = Idle
    /\ UNCHANGED <<clock, flow, logging, switch_log>>

\* The weather pipeline publishes a snapshot.
WriteWeather ==
    /\ \E w \in WeatherSet :
          global' = [ global EXCEPT !.weather_cloud_cover = w[1],
                                    !.weather_solar_irradiance = w[2],
                                    !.weather_forecast_next_6h = w[3] ]
    /\ inv' = Idle
    /\ UNCHANGED <<clock, flow, logging, switch_log>>

----------------------------------------------------------------------------
(* One invocation of the function node, solarnode.js lines 88-473.         *)

\* The clock advances by at most MaxJitter while the handler runs: the
\* handler's clock reads, in program order, are
\*   1 now (line 89)            2 getTimeBasedMode in main (143 via 310)
\*   3 the gate (341 / 367)     4 the stamp (352 / 378)
\*   5 the logger's mode (409)  6 the logger's thresholds (421)
\*   7 hour_of_day (245)        8 timestamp (246)
\* and reads 1..j see the clock at entry, the later ones the clock at exit.
ClockReads == 1..8

ReadAt(i, j, tEnd) == IF i <= j THEN clock ELSE tEnd

\* The record of an invocation that passed the rate limiter.
Observed(result, payload, now, gate, mon, m, out1, out2, setpoint_log) ==
    [ result |-> result, payload |-> payload, now |-> now,
      notice |-> mon.notice, warning |-> mon.warning, control_state |-> mon.controlState,
      decided |-> m.decided, blocked |-> m.blocked,
      mode_name |-> m.mode_name, thresholds |-> m.thresholds,
      gate |-> IF m.decided THEN gate ELSE 0,
      main_return |-> m.ret, out1 |-> out1, out2 |-> out2,
      setpoint_log |-> setpoint_log ]

\* Faulty variant: last_controller_run is stamped before the early return.
RateLimitSkipStamps(f, payload, now) ==
    [ flow |-> [ f EXCEPT !.last_controller_run = Num(now) ],
      inv  |-> [ Idle EXCEPT !.result = "skipped", !.payload = payload, !.now = now ] ]

\* Lines 94-100: the early return of a rate-limited invocation.
RateLimitSkip(f, payload, now) ==
    [ flow |-> f,
      inv  |-> [ Idle EXCEPT !.result = "skipped", !.payload = payload, !.now = now ] ]

\* Faulty variant: last_controller_run is stored at the end of the pass, so
\* a pass that aborts leaves it as it was.
ControllerPassStampsOnReturn(g, f, lg, payload, now, j, tEnd) ==
    LET mon == monitorControlState(g, f)
        f2  == [ f EXCEPT !.last_hws_control_state = mon.last_hws_control_state ]
        gate == ReadAt(3, j, tEnd)
        m   == main(g, f2, payload, ReadAt(2, j, tEnd), gate, ReadAt(4, j, tEnd))
        f3  == [ f2 EXCEPT !.last_element_switch_time = m.last_element_switch_time ]
        lgr == SetpointLogging(g, f3, lg, m.payload, mon.controlState,
                               ReadAt(5, j, tEnd), ReadAt(6, j, tEnd),
                               ReadAt(7, j, tEnd), ReadAt(8, j, tEnd))
        f4  == [ f3 EXCEPT !.last_setpoint_log = lgr.last_setpoint_log,
                           !.last_controller_run = Num(now) ]
        out1 == IF m.ret = "msg"
                THEN [ kind |-> "msg", payload |-> m.payload.value ]
                ELSE NoMsg
    IN  IF m.threw \/ lgr.threw
        THEN [ flow |-> f3,
               inv  |-> Observed("threw", payload, now, gate, mon, m, NoMsg, NoMsg, Null) ]
        ELSE [ flow |-> f4,
               inv  |-> Observed("returned", payload, now, gate, mon, m, out1, lgr.out2,
                                lgr.setpoint_log) ]

\* Lines 101-473: an invocation that passed the rate limiter.
ControllerPass(g, f, lg, payload, now, j, tEnd) ==
    LET f1  == [ f EXCEPT !.last_controller_run = Num(now) ]
        mon == monitorControlState(g, f1)
        f2  == [ f1 EXCEPT !.last_hws_control_state = mon.last_hws_control_state ]
        gate == ReadAt(3, j, tEnd)
        m   == main(g, f2, payload, ReadAt(2, j, tEnd), gate, ReadAt(4, j, tEnd))
        f3  == [ f2 EXCEPT !.last_element_switch_time = m.last_element_switch_time ]
        lgr == SetpointLogging(g, f3, lg, m.payload, mon.controlState,
                               ReadAt(5, j, tEnd), ReadAt(6, j, tEnd),
                               ReadAt(7, j, tEnd), ReadAt(8, j, tEnd))
        f4  == [ f3 EXCEPT !.last_setpoint_log = lgr.last_setpoint_log ]
        out1 == IF m.ret = "msg"
                THEN [ kind |-> "msg", payload |-> m.payload.value ]
                ELSE NoMsg
    IN  IF m.threw \/ lgr.threw
        THEN [ flow |-> f3,
               inv  |-> Observed("threw", payload, now, gate, mon, m, NoMsg, NoMsg, Null) ]
        ELSE [ flow |-> f4,
               inv  |-> Observed("returned", payload, now, gate, mon, m, out1, lgr.out2,
                                lgr.setpoint_log) ]

\* The history of switch commands: the command, the timestamp the handler
\* stamped it with, and the message that triggered it.
Logged(log, o, payload) ==
    IF o.inv.out1 = NoMsg THEN log
    ELSE LET e == [ cmd |-> o.inv.out1.payload,
                    at  |-> o.flow.last_element_switch_time.n,
                    payload |-> payload ]
         IN  IF log = << >> THEN << e >> ELSE << log[Len(log)], e >>

Invoke(payload, tEnd, j) ==
    LET now == ReadAt(1, j, tEnd)
        o   == IF RateLimited(now, flow.last_controller_run)
               THEN RateLimitSkip(flow, payload, now)
               ELSE ControllerPass(global, flow, logging, payload, now, j, tEnd)
    IN  /\ clock' = tEnd
        /\ flow' = o.flow
        /\ inv' = o.inv
        /\ switch_log' = Logged(switch_log, o, payload)
        /\ UNCHANGED <<global, logging>>

\* A sensor message arrives and the node runs.
Deliver ==
    \E payload \in MessageSet,
       tEnd \in { t \in ClockPoints : clock <= t /\ t - clock <= MaxJitter } :
        \E j \in (IF tEnd = clock THEN { 8 } ELSE ClockReads) :
            Invoke(payload, tEnd, j)

\* A sensor message arrives and the node runs within one clock value.
DeliverNow == \E payload \in MessageSet : Invoke(payload, clock, 8)

\* The controller with the relay, the dashboard flags and the weather pipeline.
Next ==
    \/ Tick
    \/ WriteElement
    \/ WriteFlag
    \/ WriteWeather
    \/ Deliver

Spec == Init /\ [][Next]_vars

\* The controller with the relay, the dashboard flags and the
\* energy-management collaborator.
NextAuthority ==
    \/ Tick
    \/ WriteElement
    \/ WriteFlag
    \/ WriteEnergyManagement
    \/ DeliverNow

SpecAuthority == Init /\ [][NextAuthority]_vars

----------------------------------------------------------------------------
(* The controller at any hour of the day. The node is deployed (or its     *)
(* flow context cleared) at some hour, with the global context as the      *)
(* collaborators left it, and sensor messages arrive.                      *)

HoursOfDay == 0..23

StartOfDay == 20000 * 86400

\* Every snapshot of WeatherSnapshots, and the context without weather keys.
AllWeather ==
    { WeatherSnapshots[i] : i \in 1..Len(WeatherSnapshots) }
        \cup { << Undefined, Undefined, Undefined >> }

InitDay ==
    /\ clock \in { StartOfDay + h * 3600 : h \in HoursOfDay }
    /\ \E sh \in { Undefined, Num(1) }, el \in { Undefined, Num(1) }, w \in AllWeather :
          global = [ disable_auto_control |-> Undefined,
                     hot_water_element |-> el,
                     super_heat |-> sh,
                     energy_management_hws_active |-> Undefined,
                     weather_cloud_cover |-> w[1],
                     weather_solar_irradiance |-> w[2],
                     weather_forecast_next_6h |-> w[3] ]
    /\ flow = [ last_controller_run |-> Undefined,
                last_element_switch_time |-> Undefined,
                last_hws_control_state |-> Undefined,
                last_setpoint_log |-> Undefined ]
    /\ logging = [ log_setpoints |-> TRUE, log_on_change_only |-> FALSE ]
    /\ inv = Idle
    /\ switch_log = << >>

SpecDay == InitDay /\ [][DeliverNow]_vars

----------------------------------------------------------------------------
(* The first message after deployment, at any hour of the day, with the    *)
(* tank at any whole temperature across the thresholds of the              *)
(* configuration (25 .. 60).                                               *)

SweepRange == 20..62

DeliverSweep ==
    /\ flow.last_controller_run = Undefined
    /\ \E t \in SweepRange :
          Invoke(Payload(Num(t), Num(t), Num(t), Num(700)), clock, 8)

SpecSweep == InitDay /\ [][DeliverSweep]_vars

----------------------------------------------------------------------------
(* The controller deployed with log_on_change_only: true (line 13).       *)

InitChangeOnly ==
    /\ clock = StartOfRun
    /\ global = [ disable_auto_control |-> Undefined,
                  hot_water_element |-> Undefined,
                  super_heat |-> Undefined,
                  energy_management_hws_active |-> Undefined,
                  weather_cloud_cover |-> Undefined,
                  weather_solar_irradiance |-> Undefined,
                  weather_forecast_next_6h |-> Undefined ]
    /\ flow = [ last_controller_run |-> Undefined,
                last_element_switch_time |-> Undefined,
                last_hws_control_state |-> Undefined,
                last_setpoint_log |-> Undefined ]
    /\ logging = [ log_setpoints |-> TRUE, log_on_change_only |-> TRUE ]
    /\ inv = Idle
    /\ switch_log = << >>

\* A reading that builds a record (hot tank, nothing to switch), one that
\* switches the element on, and one without s2.
ChangeOnlyMessages ==
    { Payload(Num(61), Num(61), Num(61), Num(700)),
      Payload(Num(20), Num(20), Num(20), Num(700)),
      Payload(Undefined, Num(20), Num(20), Num(700)) }

DeliverChangeOnly == \E payload \in ChangeOnlyMessages : Invoke(payload, clock, 8)

NextChangeOnly ==
    \/ Tick
    \/ WriteFlag
    \/ WriteWeather
    \/ DeliverChangeOnly

SpecChangeOnly == InitChangeOnly /\ [][NextChangeOnly]_vars

----------------------------------------------------------------------------
(* The controller under every weather the pipeline can leave in the global *)
(* context, a failing read included, in a weather-sensitive hour (06:00)   *)
(* and in one that is not (17:00).                                         *)

CloudCoverValues == { Undefined, Num(0), Num(95), Num(96), Num(100), ReadThrows }

IrradianceValues == { Undefined, Num(0), Num(49), Num(50), Num(450), ReadThrows }

ForecastValues ==
    { Undefined, Str("overcast"), Str("clear"), Str("unknown"), Str("partly_cloudy"),
      ReadThrows }

InitWeather ==
    /\ clock \in { StartOfDay + 6 * 3600, StartOfDay + 17 * 3600 }
    /\ \E c \in CloudCoverValues, i \in IrradianceValues, fc \in ForecastValues :
          global = [ disable_auto_control |-> Undefined,
                     hot_water_element |-> Undefined,
                     super_heat |-> Undefined,
                     energy_management_hws_active |-> Undefined,
                     weather_cloud_cover |-> c,
                     weather_solar_irradiance |-> i,
                     weather_forecast_next_6h |-> fc ]
    /\ flow = [ last_controller_run |-> Undefined,
                last_element_switch_time |-> Undefined,
                last_hws_control_state |-> Undefined,
                last_setpoint_log |-> Undefined ]
    /\ logging = [ log_setpoints |-> TRUE, log_on_change_only |-> FALSE ]
    /\ inv = Idle
    /\ switch_log = << >>

SpecWeather == InitWeather /\ [][DeliverNow]_vars

----------------------------------------------------------------------------
(* The controller fed every combination of tank temperatures around the    *)
(* usable-water threshold, with auto control enabled or disabled.          *)

Temperatures == { Num(20), Num(39), Num(40), Num(41), Num(61) }

InitEstimate ==
    /\ clock = StartOfRun
    /\ \E dis \in { Undefined, Num(1) } :
          global = [ disable_auto_control |-> dis,
                     hot_water_element |-> Undefined,
                     super_heat |-> Undefined,
                     energy_management_hws_active |-> Undefined,
                     weather_cloud_cover |-> Undefined,
                     weather_solar_irradiance |-> Undefined,
                     weather_forecast_next_6h |-> Undefined ]
    /\ flow = [ last_controller_run |-> Undefined,
                last_element_switch_time |-> Undefined,
                last_hws_control_state |-> Undefined,
                last_setpoint_log |-> Undefined ]
    /\ logging = [ log_setpoints |-> TRUE, log_on_change_only |-> FALSE ]
    /\ inv = Idle
    /\ switch_log = << >>

DeliverReading ==
    \E s2 \in Temperatures, s3 \in Temperatures, s4 \in Temperatures :
        Invoke(Payload(s2, s3, s4, Num(700)), clock, 8)

SpecEstimate == InitEstimate /\ [][DeliverReading]_vars

----------------------------------------------------------------------------
(* A cold tank whose element never comes on: auto control stays enabled,   *)
(* the relay keeps reporting the element off whatever is commanded, and    *)
(* every message carries a reading below the switch-on thresholds of the   *)
(* daytime and midday modes in force, with the uptime above                *)
(* min_time_seconds. Time passes and messages keep arriving.               *)

HeatingOffsets == << 0, 10, 900, 930, 1800, 1830, 2730, 2760 >>

HeatingPoints ==
    { StartOfRun + HeatingOffsets[i] :
        i \in { j \in 1..Len(HeatingOffsets) : j <= NumClockPoints + 1 } }

LastHeatingPoint == CHOOSE t \in HeatingPoints : \A u \in HeatingPoints : u <= t

ColdMessages ==
    { Payload(Num(20), Num(20), Num(20), Num(700)),
      Payload(Num(24), Num(24), Num(24), Num(650)) }

TickHeating ==
    /\ \E t \in HeatingPoints : t > clock /\ clock' = t
    /\ inv' = Idle
    /\ UNCHANGED <<global, flow, logging, switch_log>>

ReportElementOff ==
    /\ global' = [ global EXCEPT !.hot_water_element = Num(0) ]
    /\ inv' = Idle
    /\ UNCHANGED <<clock, flow, logging, switch_log>>

DeliverCold == \E payload \in ColdMessages : Invoke(payload, clock, 8)

NextHeating ==
    \/ TickHeating
    \/ ReportElementOff
    \/ DeliverCold

\* Time does not stop.
SpecHeating ==
    /\ Init
    /\ [][NextHeating]_vars
    /\ WF_vars(TickHeating)

----------------------------------------------------------------------------
(* Vocabulary of the properties.                                           *)

Msg(k) == [ kind |-> "msg", payload |-> k ]

\* The invocation passed the rate limiter.
Proceeded(i) == i.result = "returned" \/ i.result = "threw"

Numeric(v) == v.t = "number" /\ v.s = ""

ValidReading(p) == Numeric(p.s2) /\ Numeric(p.s3) /\ Numeric(p.s4)

DisableFlagSet(g) == g.disable_auto_control = Num(1)

ElementReads(g, k) ==
    IF k = 0 THEN g.hot_water_element \in { Undefined, Num(0) }
    ELSE g.hot_water_element = Num(k)

\* The stored timestamps, an absent one read as 0.
LastSwitch(f) ==
    IF f.last_element_switch_time = Undefined THEN 0 ELSE f.last_element_switch_time.n

LastRun(f) ==
    IF f.last_controller_run = Undefined THEN 0 ELSE f.last_controller_run.n

MinSwitchIntervalSeconds == config.min_switch_interval_minutes * 60

\* The triples the configuration holds for a mode.
TriplesOf(mode_name) ==
    { Triple(config.modes[mode_name]) } \cup
    ( IF mode_name \in { "morning", "daytime", "midday" }
      THEN { Triple(config.modes[mode_name].poor_weather) } ELSE { } )

----------------------------------------------------------------------------
(* C1  Anti-cycling: any two consecutive switch commands, whatever their   *)
(* values, carry timestamps at least min_switch_interval_minutes apart.    *)
(* The timestamp of a command is the one the handler stamps it with.       *)

C1_AntiCycling ==
    Len(switch_log) = 2 =>
        switch_log[2].at - switch_log[1].at >= MinSwitchIntervalSeconds

\* An OFF that follows an ON exactly one interval later.
C1_Witness ==
    /\ Len(switch_log) = 2
    /\ switch_log[1].cmd = 1 /\ switch_log[2].cmd = 0
    /\ switch_log[2].at - switch_log[1].at = MinSwitchIntervalSeconds
    /\ inv.out1 = Msg(0)

(* C2  Safety interlock: ON is never emitted while s4 >= switch_on_s4_temp *)
(* of the triple the invocation resolved, and that triple is one the       *)
(* configuration holds for the invocation's mode.                          *)

C2_SafetyInterlock ==
    inv.out1 = Msg(1) =>
        /\ inv.thresholds \in TriplesOf(inv.mode_name)
        /\ Numeric(inv.payload.s4)
        /\ inv.payload.s4.n < inv.thresholds.switch_on_s4_temp

\* The interlock alone vetoes a switch-on: every other condition holds.
C2_Witness ==
    /\ inv.result = "returned" /\ inv.decided /\ ~inv.blocked
    /\ inv.out1 = NoMsg
    /\ ElementReads(global, 0)
    /\ inv.payload.time = Num(700)
    /\ inv.payload.s3.n < inv.thresholds.switch_on_temp
    /\ inv.payload.s4.n >= inv.thresholds.switch_on_s4_temp
    /\ LastSwitch(flow) = 0

(* C3  Fail-safe on bad input: an invocation whose s2, s3 or s4 is missing *)
(* or not a number emits no switch command and leaves                      *)
(* last_element_switch_time as it was.                                     *)

C3_FailSafeBadInput ==
    [][ (inv'.result # "idle" /\ ~ValidReading(inv'.payload)) =>
            /\ inv'.out1 = NoMsg
            /\ flow'.last_element_switch_time = flow.last_element_switch_time ]_vars

\* s2 is missing while s3, s4, uptime, element and history all allow ON.
C3_Witness ==
    /\ inv.result = "returned"
    /\ inv.payload = Payload(Undefined, Num(20), Num(20), Num(700))
    /\ ~DisableFlagSet(global) /\ ElementReads(global, 0)
    /\ LastSwitch(flow) = 0
    /\ inv.out1 = NoMsg

(* C4  Disabled guard: with disable_auto_control set, an invocation emits  *)
(* no switch command, leaves last_element_switch_time as it was, and       *)
(* main() returns at the guard, before validating and resolving anything.  *)

C4_DisabledGuard ==
    [][ (inv'.result # "idle" /\ DisableFlagSet(global)) =>
            /\ inv'.out1 = NoMsg
            /\ flow'.last_element_switch_time = flow.last_element_switch_time
            /\ ~inv'.decided
            /\ Proceeded(inv') => inv'.main_return = "undefined" ]_vars

\* Disabled while the reading, the element and the history all allow ON.
C4_Witness ==
    /\ inv.result = "returned"
    /\ DisableFlagSet(global)
    /\ inv.payload = Payload(Num(20), Num(20), Num(20), Num(700))
    /\ ElementReads(global, 0)
    /\ LastSwitch(flow) = 0
    /\ inv.out1 = NoMsg

(* C5  With log_setpoints and without log_on_change_only, every invocation *)
(* that passes the rate limiter with valid s2/s3/s4 emits a log record,    *)
(* whether or not it emitted a switch command.                             *)

C5_LogEveryPass ==
    ( /\ logging.log_setpoints /\ ~logging.log_on_change_only
      /\ Proceeded(inv) /\ ValidReading(inv.payload) )
    => inv.out2 # NoMsg

\* The first invocation of a run: cold tank, element off, uptime 700 s.
C5_FailingInput ==
    /\ inv.payload = Payload(Num(20), Num(20), Num(20), Num(700))
    /\ inv.out1 = Msg(1)
    /\ inv.out2 = NoMsg

(* C6  Rate limiter: an invocation is skipped iff fewer than               *)
(* controller_interval_seconds separate its `now` from                     *)
(* last_controller_run (absent: 0); one that proceeds stores its `now`     *)
(* there, so two proceeding invocations are at least the interval apart    *)
(* and the first invocation proceeds.                                      *)

C6_RateLimiter ==
    [][ inv'.result # "idle" =>
            /\ inv'.now = clock
            /\ (inv'.result = "skipped") <=>
                   (inv'.now - LastRun(flow) < config.controller_interval_seconds)
            /\ Proceeded(inv') =>
                   /\ flow'.last_controller_run = Num(inv'.now)
                   /\ inv'.now - LastRun(flow) >= config.controller_interval_seconds
            /\ flow.last_controller_run = Undefined => Proceeded(inv') ]_vars

\* An invocation skipped 29 s after the previous pass.
C6_Witness ==
    /\ inv.result = "skipped"
    /\ inv.now - LastRun(flow) = config.controller_interval_seconds - 1

(* C7  A rate-limited invocation is a silent no-op: no switch command, no  *)
(* log record, no notice or warning, and the whole flow context            *)
(* (last_controller_run, last_element_switch_time, last_hws_control_state, *)
(* last_setpoint_log) as it was.                                           *)

C7_SkipIsNoOp ==
    [][ ( /\ inv'.result # "idle"
          /\ clock - LastRun(flow) < config.controller_interval_seconds ) =>
            /\ flow' = flow
            /\ inv'.out1 = NoMsg /\ inv'.out2 = NoMsg
            /\ ~inv'.notice /\ ~inv'.warning ]_vars

\* A skipped invocation whose reading would otherwise have switched ON.
C7_Witness ==
    /\ inv.result = "skipped"
    /\ inv.payload = Payload(Num(20), Num(20), Num(20), Num(700))
    /\ ~DisableFlagSet(global) /\ ElementReads(global, 0)
    /\ LastSwitch(flow) = 0

(* C8  Switch-on: an invocation that passed the rate limiter emits 1 and   *)
(* stamps last_element_switch_time with the current time iff auto control  *)
(* is not disabled, s2/s3/s4 are numeric, the element reads 0, uptime is a *)
(* number above min_time_seconds, s3 < switch_on_temp, s4 <                *)
(* switch_on_s4_temp and the gate finds at least the interval elapsed      *)
(* since last_element_switch_time. The current time is what Date.now()     *)
(* returns at the gate and at the stamp.                                   *)

SwitchOnExpected(g, f, i) ==
    /\ ~DisableFlagSet(g)
    /\ ValidReading(i.payload)
    /\ ElementReads(g, 0)
    /\ Numeric(i.payload.time) /\ i.payload.time.n > config.min_time_seconds
    /\ i.payload.s3.n < i.thresholds.switch_on_temp
    /\ i.payload.s4.n < i.thresholds.switch_on_s4_temp
    /\ i.gate - LastSwitch(f) >= MinSwitchIntervalSeconds

Stamped(f, i, exit) ==
    /\ Numeric(f.last_element_switch_time)
    /\ i.gate <= f.last_element_switch_time.n
    /\ f.last_element_switch_time.n <= exit

C8_SwitchOn ==
    [][ Proceeded(inv') =>
            /\ (~DisableFlagSet(global) /\ ValidReading(inv'.payload)) => inv'.decided
            /\ (inv'.out1 = Msg(1)) <=> SwitchOnExpected(global, flow, inv')
            /\ inv'.out1 = Msg(1) => Stamped(flow', inv', clock') ]_vars

\* ON emitted exactly one interval after the previous switch.
C8_Witness ==
    /\ inv.out1 = Msg(1)
    /\ Len(switch_log) = 2
    /\ switch_log[2].at - switch_log[1].at = MinSwitchIntervalSeconds

(* C9  Switch-off: an invocation that passed the rate limiter emits 0 and  *)
(* stamps last_element_switch_time iff auto control is not disabled,       *)
(* s2/s3/s4 are numeric, the element reads 1, s3 > switch_off_temp and the *)
(* gate finds the interval elapsed; with the temperature condition true    *)
(* and the interval not elapsed it emits nothing.                          *)

SwitchOffTemperature(g, i) ==
    /\ ~DisableFlagSet(g)
    /\ ValidReading(i.payload)
    /\ ElementReads(g, 1)
    /\ i.payload.s3.n > i.thresholds.switch_off_temp

C9_SwitchOff ==
    [][ Proceeded(inv') =>
            /\ (inv'.out1 = Msg(0)) <=>
                   ( /\ SwitchOffTemperature(global, inv')
                     /\ inv'.gate - LastSwitch(flow) >= MinSwitchIntervalSeconds )
            /\ inv'.out1 = Msg(0) => Stamped(flow', inv', clock')
            /\ ( /\ SwitchOffTemperature(global, inv')
                 /\ inv'.gate - LastSwitch(flow) < MinSwitchIntervalSeconds ) =>
                   inv'.out1 = NoMsg /\ flow'.last_element_switch_time = flow.last_element_switch_time ]_vars

\* OFF vetoed: the tank is hot, the element on, the last switch 899 s ago.
C9_Witness ==
    /\ inv.result = "returned" /\ inv.blocked
    /\ ElementReads(global, 1)
    /\ inv.payload.s3.n > inv.thresholds.switch_off_temp
    /\ inv.gate - LastSwitch(flow) = MinSwitchIntervalSeconds - 1
    /\ inv.out1 = NoMsg

(* C10  Idempotence: once a switch command has been emitted, no invocation *)
(* that ends before min_switch_interval_minutes have elapsed since it      *)
(* emits a switch command, whatever its reading; when the temperature     *)
(* condition is still satisfied the decision is vetoed by the gate.        *)

TemperatureConditionHolds(g, i) ==
    \/ SwitchOffTemperature(g, i)
    \/ /\ ~DisableFlagSet(g)
       /\ ValidReading(i.payload)
       /\ ElementReads(g, 0)
       /\ Numeric(i.payload.time) /\ i.payload.time.n > config.min_time_seconds
       /\ i.payload.s3.n < i.thresholds.switch_on_temp
       /\ i.payload.s4.n < i.thresholds.switch_on_s4_temp

C10_Idempotence ==
    [][ ( /\ inv'.result # "idle"
          /\ switch_log # << >>
          /\ clock' - switch_log[Len(switch_log)].at < MinSwitchIntervalSeconds ) =>
            /\ inv'.out1 = NoMsg
            /\ switch_log' = switch_log
            /\ (Proceeded(inv') /\ TemperatureConditionHolds(global, inv')) => inv'.blocked ]_vars

\* The reading that switched the element ON arrives again 30 s later, the
\* element still reads 0, and the gate vetoes it.
C10_Witness ==
    /\ inv.result = "returned" /\ inv.blocked /\ inv.out1 = NoMsg
    /\ Len(switch_log) = 1
    /\ switch_log[1].cmd = 1
    /\ switch_log[1].payload = inv.payload
    /\ ElementReads(global, 0)
    /\ inv.now - switch_log[1].at = config.controller_interval_seconds

(* C11  Mode totality: at every hour of the day getTimeBasedMode returns a *)
(* name that is a key of config.modes with a complete threshold triple;    *)
(* every mode for which main() or the logger can select the poor_weather   *)
(* variant has a complete poor_weather triple; super_heat has a triple; so *)
(* the thresholds an invocation resolves are a triple of its mode.         *)

TripleKeys == { "switch_off_temp", "switch_on_temp", "switch_on_s4_temp" }

C11_ModeTotality ==
    LET m == getTimeBasedMode(clock)
    IN  /\ m \in DOMAIN config.modes
        /\ TripleKeys \subseteq DOMAIN config.modes[m]
        /\ (MainWeatherSensitive(m) \/ LoggerWeatherSensitive(m)) =>
               /\ "poor_weather" \in DOMAIN config.modes[m]
               /\ TripleKeys \subseteq DOMAIN config.modes[m].poor_weather
        /\ "super_heat" \in DOMAIN config.modes
        /\ TripleKeys \subseteq DOMAIN config.modes.super_heat
        /\ inv.decided =>
               /\ inv.mode_name \in DOMAIN config.modes
               /\ inv.thresholds \in TriplesOf(inv.mode_name)
        /\ inv.out2 # NoMsg =>
               /\ inv.out2.payload.mode \in DOMAIN config.modes
               /\ [ k \in TripleKeys |-> inv.out2.payload[k] ]
                      \in TriplesOf(inv.out2.payload.mode)

\* At 23:00 the last band resolves evening_night, in main() and in the log.
C11_Witness ==
    /\ getHours(clock) = 23
    /\ inv.decided /\ inv.mode_name = "evening_night"
    /\ inv.thresholds = Triple(config.modes.evening_night)
    /\ inv.out2 # NoMsg /\ inv.out2.payload.mode = "evening_night"

(* C12  Super-heat override: whenever super_heat == 1, an invocation's     *)
(* switch decision and its log record both use mode super_heat with the    *)
(* thresholds 60 / 58 / 58, at every hour and under every weather.         *)

SuperHeatTriple ==
    [ switch_off_temp |-> 60, switch_on_temp |-> 58, switch_on_s4_temp |-> 58 ]

C12_SuperHeatOverride ==
    [][ (Proceeded(inv') /\ global.super_heat = Num(1)) =>
            /\ inv'.decided =>
                   /\ inv'.mode_name = "super_heat"
                   /\ inv'.thresholds = SuperHeatTriple
            /\ inv'.out2 # NoMsg =>
                   /\ inv'.out2.payload.mode = "super_heat"
                   /\ [ k \in TripleKeys |-> inv'.out2.payload[k] ] = SuperHeatTriple ]_vars

\* Midday under poor weather with super_heat set: decided and logged as
\* super_heat.
C12_Witness ==
    /\ global.super_heat = Num(1)
    /\ getTimeBasedMode(clock) = "midday"
    /\ inv.decided /\ inv.mode_name = "super_heat"
    /\ inv.out2 # NoMsg
    /\ inv.out2.payload.poor_weather_mode
    /\ inv.out2.payload.mode = "super_heat"

(* C13  Weather-sensitive threshold selection in the switch decision:      *)
(* without super_heat, the thresholds main() decides with are the mode's   *)
(* poor_weather triple when the time-based mode is morning, daytime or     *)
(* midday and the weather classification is poor, and the mode's normal    *)
(* triple in every other case.                                             *)

C13_WeatherSensitiveSelection ==
    (inv.decided /\ global.super_heat # Num(1)) =>
        LET m    == getTimeBasedMode(clock)
            poor == assessWeatherConditions(global).poor_solar
        IN  inv.thresholds =
                IF m \in { "morning", "daytime", "midday" } /\ poor
                THEN Triple(config.modes[m].poor_weather)
                ELSE Triple(config.modes[m])

\* Midday, 96 % cloud and 40 W/m2, s3 = 20, s4 = 34, element off: main()
\* decides with the normal midday triple (s4 limit 32) and stays silent,
\* while the log record of the same invocation carries the poor_weather
\* triple (s4 limit 42).
C13_FailingInput ==
    /\ getTimeBasedMode(clock) = "midday"
    /\ global.super_heat = Undefined
    /\ global.weather_cloud_cover = Num(96) /\ global.weather_solar_irradiance = Num(40)
    /\ inv.payload = Payload(Num(20), Num(20), Num(34), Num(700))
    /\ ElementReads(global, 0)
    /\ inv.decided /\ ~inv.blocked
    /\ inv.thresholds = Triple(config.modes.midday)
    /\ inv.out1 = NoMsg
    /\ inv.out2 # NoMsg
    /\ inv.out2.payload.switch_on_s4_temp = config.modes.midday.poor_weather.switch_on_s4_temp

(* C14  Weather classification: poor = (cloud_cover > 95 AND irradiance <  *)
(* 50) OR forecast == 'overcast', an absent cloud cover or irradiance read *)
(* as 0 and an absent forecast as 'unknown'; nothing else makes the result *)
(* poor. The result is what main() selects thresholds with and what the    *)
(* log record reports.                                                     *)

CloudCoverRead(g) ==
    IF g.weather_cloud_cover = Undefined THEN 0 ELSE g.weather_cloud_cover.n

IrradianceRead(g) ==
    IF g.weather_solar_irradiance = Undefined THEN 0 ELSE g.weather_solar_irradiance.n

ForecastRead(g) ==
    IF g.weather_forecast_next_6h = Undefined THEN "unknown"
    ELSE g.weather_forecast_next_6h.s

PoorExpected(g) ==
    \/ CloudCoverRead(g) > 95 /\ IrradianceRead(g) < 50
    \/ ForecastRead(g) = "overcast"

C15_WeatherFallback ==
    (WeatherReadThrows(global) /\ Proceeded(inv)) =>
        /\ inv.payload # NoPayload => inv.result = "returned"
        /\ ValidReading(inv.payload) =>
               /\ inv.decided
               /\ inv.thresholds = Triple(config.modes[getTimeBasedMode(clock)])
        /\ inv.out2 # NoMsg =>
               /\ ~inv.out2.payload.poor_weather_mode
               /\ inv.out2.payload.cloud_cover_pct = Num(0)
               /\ inv.out2.payload.solar_irradiance = Num(0)
               /\ inv.out2.payload.weather_forecast = Str("unknown")
               /\ [ k \in TripleKeys |-> inv.out2.payload[k] ]
                      = Triple(config.modes[getTimeBasedMode(clock)])

\* The irradiance read throws in the morning under 96 % cloud and an
\* overcast forecast: the decision is taken under the normal morning triple
\* and the record reports poor_weather_mode false.
C15_Witness ==
    /\ global.weather_cloud_cover = Num(96)
    /\ global.weather_solar_irradiance = ReadThrows
    /\ global.weather_forecast_next_6h = Str("overcast")
    /\ getTimeBasedMode(clock) = "morning"
    /\ inv.result = "returned" /\ inv.decided
    /\ inv.thresholds = Triple(config.modes.morning)
    /\ inv.out2 # NoMsg /\ ~inv.out2.payload.poor_weather_mode

(* C16  The controller never raises a fault to its caller: every           *)
(* invocation, whatever the message (a payload that is absent included)    *)
(* and whatever the shared state, completes normally.                      *)

C16_NeverThrows == inv.result # "threw"

\* A message without payload: msg.payload.s2 (line 288) throws a TypeError
\* after the rate limiter has stamped last_controller_run.
C16_FailingInput ==
    /\ inv.result = "threw"
    /\ inv.payload = NoPayload
    /\ inv.main_return = "threw"
    /\ flow.last_controller_run = Num(inv.now)
    /\ inv.out1 = NoMsg /\ inv.out2 = NoMsg

(* C17  Log on change only: with log_on_change_only, the first invocation  *)
(* that builds a record emits it; a later one emits its record iff mode,   *)
(* switch_off_temp, switch_on_temp, switch_on_s4_temp or poor_weather_mode *)
(* differs from the stored record; the stored record is replaced exactly   *)
(* when a record is emitted, by that record; so a record emitted after     *)
(* another differs from it in one of the five fields.                      *)

SetpointKey(r) ==
    << r.mode, r.switch_off_temp, r.switch_on_temp, r.switch_on_s4_temp,
       r.poor_weather_mode >>

C17_LogOnChangeOnly ==
    [][ inv'.result # "idle" =>
            /\ inv'.setpoint_log = Null => inv'.out2 = NoMsg
            /\ (inv'.setpoint_log # Null /\ flow.last_setpoint_log = Undefined) =>
                   inv'.out2 # NoMsg
            /\ (inv'.setpoint_log # Null /\ flow.last_setpoint_log # Undefined) =>
                   ( inv'.out2 # NoMsg <=>
                       SetpointKey(inv'.setpoint_log) # SetpointKey(flow.last_setpoint_log) )
            /\ inv'.out2 # NoMsg =>
                   /\ inv'.out2.payload = inv'.setpoint_log
                   /\ flow'.last_setpoint_log = inv'.out2.payload
            /\ inv'.out2 = NoMsg => flow'.last_setpoint_log = flow.last_setpoint_log
            /\ (inv'.out2 # NoMsg /\ flow.last_setpoint_log # Undefined) =>
                   SetpointKey(inv'.out2.payload) # SetpointKey(flow.last_setpoint_log) ]_vars

\* A later invocation builds a record with the stored record's mode,
\* thresholds and poor-weather flag and emits nothing.
C17_Witness ==
    /\ inv.result = "returned"
    /\ inv.setpoint_log # Null
    /\ inv.out2 = NoMsg
    /\ flow.last_setpoint_log # Undefined
    /\ SetpointKey(inv.setpoint_log) = SetpointKey(flow.last_setpoint_log)
    /\ inv.setpoint_log.timestamp > flow.last_setpoint_log.timestamp

(* C18  Control-state monitor: on every invocation that passes the rate    *)
(* limiter, control_state is ENERGY_MGMT iff energy_management_hws_active  *)
(* is set and AUTO_CONTROL otherwise; the transition notice is emitted iff *)
(* control_state differs from the stored last_hws_control_state (absent:   *)
(* AUTO_CONTROL); afterwards the stored state is the one just derived.     *)

StoredControlState(f) ==
    IF f.last_hws_control_state = Undefined THEN "AUTO_CONTROL"
    ELSE f.last_hws_control_state.s

EnergyManagementSet(g) == g.energy_management_hws_active = Bool(TRUE)

C18_ControlStateMonitor ==
    [][ Proceeded(inv') =>
            /\ inv'.control_state =
                   IF EnergyManagementSet(global) THEN "ENERGY_MGMT" ELSE "AUTO_CONTROL"
            /\ inv'.notice <=> (inv'.control_state # StoredControlState(flow))
            /\ StoredControlState(flow') = inv'.control_state ]_vars

\* Energy management has released the element: the notice of the
\* transition back to AUTO_CONTROL.
C18_Witness ==
    /\ inv.result = "returned"
    /\ inv.notice
    /\ inv.control_state = "AUTO_CONTROL"
    /\ flow.last_hws_control_state = Str("AUTO_CONTROL")

(* C19  Inconsistent authority flags are reported, not corrected: the      *)
(* warning is raised on an invocation that passes the rate limiter iff     *)
(* energy_management_hws_active is set and disable_auto_control is not 1;  *)
(* a skipped invocation raises none; no invocation writes the global       *)
(* context (the two flags, hot_water_element, super_heat, the weather).    *)

C19_ReportedNotCorrected ==
    [][ inv'.result # "idle" =>
            /\ global' = global
            /\ inv'.warning <=>
                   ( /\ Proceeded(inv')
                     /\ EnergyManagementSet(global)
                     /\ global.disable_auto_control # Num(1) ) ]_vars

\* Energy management is active while auto control is enabled: the warning
\* is raised, the flags stay as they were and main() goes on to decide.
C19_Witness ==
    /\ inv.warning
    /\ EnergyManagementSet(global)
    /\ global.disable_auto_control = Undefined
    /\ inv.decided
    /\ inv.out1 = Msg(1)

(* C20  Hot-water-level estimate: estimateHotWaterLevel(s2, s3, s4) is     *)
(* 33 if s4 > 40, plus 33 if s3 > 40, plus 34 if s2 > 40, the comparisons  *)
(* strict; so it is one of 0, 33, 34, 66, 67, 100, it is 100 iff all three *)
(* readings exceed 40, and it does not decrease when a reading increases.  *)
(* It is the hot_water_level_pct of the log record.                        *)

Share(reading, share) == IF reading.n > 40 THEN share ELSE 0

C20_HotWaterEstimate ==
    inv.result # "idle" =>
        LET s2 == inv.payload.s2
            s3 == inv.payload.s3
            s4 == inv.payload.s4
            level == estimateHotWaterLevel(s2, s3, s4)
        IN  /\ level = Share(s4, 33) + Share(s3, 33) + Share(s2, 34)
            /\ level \in { 0, 33, 34, 66, 67, 100 }
            /\ (level = 100) <=> (s2.n > 40 /\ s3.n > 40 /\ s4.n > 40)
            /\ \A t \in Temperatures :
                   /\ t.n >= s2.n => estimateHotWaterLevel(t, s3, s4) >= level
                   /\ t.n >= s3.n => estimateHotWaterLevel(s2, t, s4) >= level
                   /\ t.n >= s4.n => estimateHotWaterLevel(s2, s3, t) >= level
            /\ inv.out2 # NoMsg => inv.out2.payload.hot_water_level_pct = level

\* s3 at exactly 40 does not count: s2 = 41, s3 = 40, s4 = 41 is logged
\* as 67 %.
C20_Witness ==
    /\ inv.payload = Payload(Num(41), Num(40), Num(41), Num(700))
    /\ inv.out2 # NoMsg
    /\ inv.out2.payload.hot_water_level_pct = 67

(* C21  Time bands as documented: without super_heat the mode is           *)
(* evening_prep for hours 16..18 and evening_night for hours 19..23 and    *)
(* 0..4; in particular hour 19 resolves to evening_night. The mode is the  *)
(* one main() decides with and the one the log record reports.             *)

DocumentedEveningMode(hour) ==
    IF hour >= 16 /\ hour <= 18 THEN "evening_prep" ELSE "evening_night"

C21_TimeBandsAsDocumented ==
    ( /\ global.super_heat # Num(1)
      /\ getHours(clock) >= 16 \/ getHours(clock) <= 4 ) =>
        /\ inv.decided => inv.mode_name = DocumentedEveningMode(getHours(clock))
        /\ inv.out2 # NoMsg =>
               inv.out2.payload.mode = DocumentedEveningMode(getHours(clock))

\* 19:00: the decision is taken with the evening_prep triple (switch-on
\* below 40, switch-off above 48) and the record reports evening_prep.
C21_FailingInput ==
    /\ getHours(clock) = 19
    /\ global.super_heat = Undefined
    /\ inv.payload = Payload(Num(61), Num(61), Num(61), Num(700))
    /\ inv.decided /\ inv.mode_name = "evening_prep"
    /\ inv.thresholds = Triple(config.modes.evening_prep)
    /\ inv.out2 # NoMsg /\ inv.out2.payload.mode = "evening_prep"

(* C22  Documented poor-weather numeric rule: the weather is classified    *)
(* poor whenever cloud_cover > 95 and solar_irradiance < 100; cloud cover  *)
(* 96 with irradiance 75 and a forecast that is not overcast is poor.      *)

DocumentedVeryPoor(g) ==
    /\ Numeric(g.weather_cloud_cover) /\ g.weather_cloud_cover.n > 95
    /\ Numeric(g.weather_solar_irradiance) /\ g.weather_solar_irradiance.n < 100

C22_DocumentedWeatherRule ==
    DocumentedVeryPoor(global) =>
        /\ inv.out2 # NoMsg => inv.out2.payload.poor_weather_mode
        /\ ( /\ inv.decided /\ global.super_heat # Num(1)
             /\ getTimeBasedMode(clock) \in { "morning", "daytime" } ) =>
               inv.thresholds = Triple(config.modes[getTimeBasedMode(clock)].poor_weather)

\* 06:00, cloud cover 96, irradiance 75, forecast clear: the record
\* reports poor_weather_mode false and main() decides with the normal
\* morning triple.
C22_FailingInput ==
    /\ global.weather_cloud_cover = Num(96)
    /\ global.weather_solar_irradiance = Num(75)
    /\ global.weather_forecast_next_6h = Str("clear")
    /\ global.super_heat = Undefined
    /\ getHours(clock) = 6
    /\ inv.decided /\ inv.thresholds = Triple(config.modes.morning)
    /\ inv.out2 # NoMsg /\ ~inv.out2.payload.poor_weather_mode

(* C23  In every emitted log record poor_weather_mode is true exactly when *)
(* the weather override is active, that is when the record's threshold     *)
(* triple is the poor_weather variant of the record's mode; it is false    *)
(* whenever the record carries a mode's normal thresholds.                 *)

RecordTriple(r) == [ k \in TripleKeys |-> r[k] ]

OverrideActive(r) ==
    /\ r.mode \in { "morning", "daytime", "midday" }
    /\ RecordTriple(r) = Triple(config.modes[r.mode].poor_weather)

C23_PoorWeatherModeFlag ==
    inv.out2 # NoMsg =>
        (inv.out2.payload.poor_weather_mode <=> OverrideActive(inv.out2.payload))

\* super_heat under an overcast forecast: the record carries the
\* super_heat triple and poor_weather_mode true.
C23_FailingInput ==
    /\ global.super_heat = Num(1)
    /\ global.weather_forecast_next_6h = Str("overcast")
    /\ inv.out2 # NoMsg
    /\ inv.out2.payload.mode = "super_heat"
    /\ RecordTriple(inv.out2.payload) = Triple(config.modes.super_heat)
    /\ inv.out2.payload.poor_weather_mode

(* C24  In every emitted log record margin_to_switch_on is switch_on_temp  *)
(* - s3_current and margin_to_switch_off is s3_current - switch_off_temp,  *)
(* from the triple and the s3 the record reports (not a number when s3 is  *)
(* not one), and s2_current, s3_current, s4_current are the readings of    *)
(* the inbound message.                                                    *)

C24_Margins ==
    inv.out2 # NoMsg =>
        LET r == inv.out2.payload
        IN  /\ r.s2_current = inv.payload.s2
            /\ r.s3_current = inv.payload.s3
            /\ r.s4_current = inv.payload.s4
            /\ Numeric(r.s3_current) =>
                   /\ r.margin_to_switch_on = Num(r.switch_on_temp - r.s3_current.n)
                   /\ r.margin_to_switch_off = Num(r.s3_current.n - r.switch_off_temp)
            /\ ~Numeric(r.s3_current) =>
                   IsNaN(r.margin_to_switch_on) /\ IsNaN(r.margin_to_switch_off)

\* 23:00, s3 = 61 against the evening_night triple: 26 above switch-on,
\* 19 above switch-off.
C24_Witness ==
    /\ getHours(clock) = 23
    /\ inv.out2 # NoMsg
    /\ inv.out2.payload.s3_current = Num(61)
    /\ inv.out2.payload.margin_to_switch_on = Num(0 - 26)
    /\ inv.out2.payload.margin_to_switch_off = Num(19)

(* C25  Every invocation that is not rate-limited stores its `now` in      *)
(* last_controller_run, also when the pass stops at the disabled guard or  *)
(* at the sensor validation, is vetoed by anti-cycling, or aborts; so      *)
(* an invocation that starts inside the interval after any pass is         *)
(* skipped.                                                                *)

C25_RunStampedFirst ==
    [][ inv'.result # "idle" =>
            /\ Proceeded(inv') =>
                   /\ inv'.now = clock
                   /\ flow'.last_controller_run = Num(inv'.now)
            /\ inv.result \in { "returned", "threw" } =>
                   flow.last_controller_run = Num(inv.now)
            /\ ( /\ flow.last_controller_run # Undefined
                 /\ clock - flow.last_controller_run.n < config.controller_interval_seconds ) =>
                   inv'.result = "skipped" ]_vars

\* A pass that aborted on a message without payload has stored its `now`.
C25_Witness ==
    /\ inv.result = "threw"
    /\ flow.last_controller_run = Num(inv.now)
    /\ inv.now = clock

(* C26  An emitted command differs from the element state read in the same *)
(* invocation: 1 is emitted only when hot_water_element reads 0 or is      *)
(* absent, 0 only when it reads 1; the first output carries nothing, 0 or  *)
(* 1, never a command that keeps the state.                                *)

C26_CommandDiffersFromElement ==
    /\ inv.out1 \in { NoMsg, Msg(0), Msg(1) }
    /\ inv.out1 = Msg(1) => ElementReads(global, 0)
    /\ inv.out1 = Msg(0) => ElementReads(global, 1)
    /\ inv.main_return = "msg" <=> inv.out1 # NoMsg

\* The element reads 1 and the tank is cold: nothing is emitted, although
\* the gate is open.
C26_Witness ==
    /\ inv.result = "returned" /\ inv.decided /\ ~inv.blocked
    /\ ElementReads(global, 1)
    /\ inv.payload = Payload(Num(20), Num(20), Num(20), Num(700))
    /\ inv.out1 = NoMsg

(* C27  last_element_switch_time changes in an invocation iff the          *)
(* invocation emits a switch command, and then to the time of that         *)
(* invocation; a veto, the disabled guard, the input guard, a skip and a   *)
(* pass without action leave it alone; it never decreases.                 *)

C27_SwitchTimeFrame ==
    [][ /\ LastSwitch(flow') >= LastSwitch(flow)
        /\ inv'.result = "idle" =>
               flow'.last_element_switch_time = flow.last_element_switch_time
        /\ inv'.result # "idle" =>
               /\ (flow'.last_element_switch_time # flow.last_element_switch_time)
                      <=> (inv'.out1 # NoMsg)
               /\ inv'.out1 # NoMsg =>
                      /\ Numeric(flow'.last_element_switch_time)
                      /\ clock <= flow'.last_element_switch_time.n
                      /\ flow'.last_element_switch_time.n <= clock' ]_vars

\* A switch-off vetoed by the gate leaves the time of the switch-on.
C27_Witness ==
    /\ inv.result = "returned" /\ inv.blocked /\ inv.out1 = NoMsg
    /\ Len(switch_log) = 1
    /\ switch_log[1].cmd = 1
    /\ ElementReads(global, 1)
    /\ flow.last_element_switch_time = Num(switch_log[1].at)
    /\ inv.now > switch_log[1].at

(* C28  Hysteresis: every threshold triple of the configuration (each      *)
(* mode's, each poor_weather variant's, super_heat's) has switch_on_temp   *)
(* below switch_off_temp, so in no decision do s3 < switch_on_temp and     *)
(* s3 > switch_off_temp hold together.                                     *)

AllTriples == UNION { TriplesOf(m) : m \in DOMAIN config.modes }

C28_Hysteresis ==
    /\ \A t \in AllTriples : t.switch_on_temp < t.switch_off_temp
    /\ inv.decided =>
           /\ inv.thresholds \in AllTriples
           /\ ~ ( /\ inv.payload.s3.n < inv.thresholds.switch_on_temp
                  /\ inv.payload.s3.n > inv.thresholds.switch_off_temp )
    /\ inv.out1 = Msg(1) => inv.payload.s3.n < inv.thresholds.switch_off_temp
    /\ inv.out1 = Msg(0) => inv.payload.s3.n > inv.thresholds.switch_on_temp

\* s3 = 48 at 17:00 is exactly switch-off of evening_prep and above its
\* switch-on (40): with the element on, nothing is emitted.
C28_Witness ==
    /\ inv.decided /\ ~inv.blocked
    /\ inv.mode_name = "evening_prep"
    /\ ElementReads(global, 1)
    /\ inv.payload.s3.n > inv.thresholds.switch_on_temp
    /\ inv.payload.s3.n = inv.thresholds.switch_off_temp
    /\ inv.out1 = NoMsg

(* C29  The disabled guard suppresses only the command: an invocation that *)
(* passes the rate limiter with disable_auto_control set and valid         *)
(* s2/s3/s4 emits no command and still emits a log record, whose           *)
(* disable_auto_control is 1 and whose control_state follows the           *)
(* energy-management flag.                                                 *)

C29_DisabledStillLogs ==
    ( /\ Proceeded(inv) /\ DisableFlagSet(global) /\ ValidReading(inv.payload)
      /\ logging.log_setpoints /\ ~logging.log_on_change_only ) =>
        /\ inv.out1 = NoMsg
        /\ inv.out2 # NoMsg
        /\ inv.out2.payload.disable_auto_control = Num(1)
        /\ inv.out2.payload.control_state =
               IF EnergyManagementSet(global) THEN "ENERGY_MGMT" ELSE "AUTO_CONTROL"
        /\ inv.out2.payload.s3_current = inv.payload.s3

\* Energy management holds the element and has disabled auto control; the
\* cold tank that would otherwise be switched on is only logged.
C29_Witness ==
    /\ DisableFlagSet(global) /\ EnergyManagementSet(global)
    /\ ElementReads(global, 0)
    /\ inv.payload = Payload(Num(20), Num(20), Num(20), Num(700))
    /\ inv.out1 = NoMsg
    /\ inv.out2 # NoMsg
    /\ inv.out2.payload.control_state = "ENERGY_MGMT"
    /\ inv.out2.payload.disable_auto_control = Num(1)

(* C30  Log/decision agreement: in every invocation that both evaluates    *)
(* the switch decision and emits a log record, the record's mode and       *)
(* threshold triple are the mode and the triple the decision used, at      *)
(* every hour, super_heat value and weather snapshot.                      *)

C30_LogDecisionAgreement ==
    ( inv.decided /\ inv.out2 # NoMsg ) =>
        /\ inv.out2.payload.mode = inv.mode_name
        /\ RecordTriple(inv.out2.payload) = inv.thresholds

\* Midday under an overcast forecast with a hot tank and the element on:
\* the decision compares against the normal midday triple and the record
\* of the same invocation reports the poor_weather triple.
C30_FailingInput ==
    /\ getTimeBasedMode(clock) = "midday"
    /\ global.super_heat = Undefined
    /\ global.weather_forecast_next_6h = Str("overcast")
    /\ inv.payload = Payload(Num(61), Num(61), Num(61), Num(700))
    /\ inv.decided
    /\ inv.mode_name = "midday"
    /\ inv.thresholds = Triple(config.modes.midday)
    /\ inv.out2 # NoMsg
    /\ inv.out2.payload.mode = "midday"
    /\ inv.out2.payload.poor_weather_mode
    /\ RecordTriple(inv.out2.payload) = Triple(config.modes.midday.poor_weather)

(* C31  Every emitted log record carries numeric s2_current, s3_current    *)
(* and s4_current: the logger's validity check rejects a message in which  *)
(* one of s2/s3/s4 is missing or not a number, as the guard of the switch  *)
(* decision does.                                                          *)

C31_LogRecordsNumeric ==
    inv.out2 # NoMsg =>
        /\ Numeric(inv.out2.payload.s2_current)
        /\ Numeric(inv.out2.payload.s3_current)
        /\ Numeric(inv.out2.payload.s4_current)
        /\ ~SensorDataInvalid(inv.payload.s2, inv.payload.s3, inv.payload.s4)

\* s3 arrives as a string: main() refuses to decide, and the logger, which
\* only tests for undefined, emits a record carrying the string.
C31_FailingInput ==
    /\ inv.result = "returned"
    /\ inv.payload = Payload(Num(20), Str("not a number"), Num(20), Num(700))
    /\ ~inv.decided /\ inv.main_return = "null" /\ inv.out1 = NoMsg
    /\ inv.out2 # NoMsg
    /\ inv.out2.payload.s3_current = Str("not a number")
    /\ inv.out2.payload.s2_current = Num(20)

(* C32  The energy-management flag alone never changes the switch          *)
(* decision: an invocation run on the same message, clock and stored state *)
(* with any other value of energy_management_hws_active emits the same     *)
(* command and leaves the same last_element_switch_time.                   *)

EnergyManagementValues == { Undefined, Bool(FALSE), Bool(TRUE) }

WithEnergyManagement(g, v) == [ g EXCEPT !.energy_management_hws_active = v ]

C32_EnergyFlagNoInterference ==
    [][ Proceeded(inv') =>
          \A v \in EnergyManagementValues :
              LET other == ControllerPass(WithEnergyManagement(global, v), flow, logging,
                                          inv'.payload, inv'.now, 8, clock')
              IN  /\ other.inv.out1 = inv'.out1
                  /\ other.inv.main_return = inv'.main_return
                  /\ other.flow.last_element_switch_time = flow'.last_element_switch_time
                  /\ other.flow.last_controller_run = flow'.last_controller_run ]_vars

\* Energy management holds the element, auto control is not disabled and
\* the element is on with a hot tank: the node switches it off regardless.
C32_Witness ==
    /\ EnergyManagementSet(global) /\ ~DisableFlagSet(global)
    /\ ElementReads(global, 1)
    /\ inv.control_state = "ENERGY_MGMT"
    /\ inv.out1 = Msg(0)
    /\ flow.last_element_switch_time = Num(inv.now)

(* C33  Poor weather never makes the controller less willing to heat:      *)
(* every component of a poor_weather triple is at least the normal one,    *)
(* and for the same reading, element state and stored state an invocation  *)
(* that emits ON under good weather emits ON under poor weather, and one   *)
(* that emits OFF under poor weather emits OFF under good weather.         *)

WeatherSensitiveModes == { "morning", "daytime", "midday" }

WithWeather(g, w) ==
    [ g EXCEPT !.weather_cloud_cover = w[1],
               !.weather_solar_irradiance = w[2],
               !.weather_forecast_next_6h = w[3] ]

C33_PoorWeatherMonotone ==
    [][ /\ \A m \in WeatherSensitiveModes : \A k \in TripleKeys :
              config.modes[m].poor_weather[k] >= config.modes[m][k]
        /\ Proceeded(inv') =>
              \A w \in AllWeather :
                  LET g2    == WithWeather(global, w)
                      other == ControllerPass(g2, flow, logging, inv'.payload,
                                              inv'.now, 8, clock')
                  IN  ( /\ ~assessWeatherConditions(global).poor_solar
                        /\ assessWeatherConditions(g2).poor_solar ) =>
                          /\ inv'.out1 = Msg(1) => other.inv.out1 = Msg(1)
                          /\ other.inv.out1 = Msg(0) => inv'.out1 = Msg(0) ]_vars

\* A morning under poor weather with s3 = 35: not below the normal
\* switch-on (35), below the poor-weather one (36); the element is switched
\* on.
C33_Witness ==
    /\ inv.decided /\ inv.mode_name = "morning"
    /\ assessWeatherConditions(global).poor_solar
    /\ inv.thresholds = Triple(config.modes.morning.poor_weather)
    /\ inv.payload.s3 = Num(config.modes.morning.switch_on_temp)
    /\ inv.out1 = Msg(1)

(* C34  Liveness of heating: while auto control stays enabled, the element *)
(* keeps reading 0 and every message carries a numeric reading with the    *)
(* uptime above min_time_seconds and s3, s4 below the switch-on thresholds *)
(* of the mode in force, command 1 is eventually emitted again once        *)
(* min_switch_interval_minutes have elapsed since                          *)
(* last_element_switch_time, and no invocation that passes the rate        *)
(* limiter after that interval stays silent.                               *)

SwitchTimes == HeatingPoints \cup { 0 }

\* Messages keep arriving: one is delivered at the last instant of the run.
MessagesKeepArriving == <>( clock = LastHeatingPoint /\ inv.result # "idle" )

C34_HeatingLiveness ==
    /\ MessagesKeepArriving =>
          \A t \in SwitchTimes :
              ( LastSwitch(flow) = t /\ t + MinSwitchIntervalSeconds <= LastHeatingPoint )
                  ~> ( /\ inv.out1 = Msg(1)
                       /\ LastSwitch(flow) >= t + MinSwitchIntervalSeconds )
    /\ [] ( ( inv.result = "returned" /\ inv.out1 # Msg(1) ) =>
                inv.gate - LastSwitch(flow) < MinSwitchIntervalSeconds )

\* The element was commanded on, did not come on, and is commanded on
\* again by the first pass after the interval.
C34_Witness ==
    /\ ElementReads(global, 0) /\ ~DisableFlagSet(global)
    /\ Len(switch_log) = 2
    /\ switch_log[1].cmd = 1 /\ switch_log[2].cmd = 1
    /\ switch_log[2].at - switch_log[1].at >= MinSwitchIntervalSeconds
    /\ inv.out1 = Msg(1)
    /\ inv.now = switch_log[2].at

(* C35  Alternation: when the relay has set hot_water_element to the last  *)
(* emitted command by the time of the next invocation, the command that    *)
(* invocation emits differs from the last one, so the emitted commands     *)
(* alternate between 1 and 0.                                              *)

LastCommand == switch_log[Len(switch_log)].cmd

C35_Alternation ==
    [][ ( /\ inv'.out1 # NoMsg
          /\ switch_log # << >>
          /\ global.hot_water_element = Num(LastCommand) ) =>
            /\ inv'.out1.payload # LastCommand
            /\ inv'.out1.payload = 1 - LastCommand
            /\ Len(switch_log') = 2
            /\ switch_log'[1].cmd # switch_log'[2].cmd ]_vars

\* The element was switched on, the relay followed, and the tank now hot
\* is switched off after the interval.
C35_Witness ==
    /\ Len(switch_log) = 2
    /\ switch_log[1].cmd = 1 /\ switch_log[2].cmd = 0
    /\ global.hot_water_element = Num(1)
    /\ inv.out1 = Msg(0)
    /\ switch_log[2].at - switch_log[1].at >= MinSwitchIntervalSeconds

(* C36  An emitted record is self-consistent even when the hour changes    *)
(* between the handler's clock reads: its threshold triple belongs to its  *)
(* mode, its mode is the band of its hour_of_day (super_heat apart), and   *)
(* its mode is the mode the switch decision used.                          *)

BandOfHour(hour) == getTimeBasedMode(StartOfDay + hour * 3600)

C36_RecordSelfConsistent ==
    inv.out2 # NoMsg =>
        LET r == inv.out2.payload
        IN  /\ RecordTriple(r) \in TriplesOf(r.mode)
            /\ r.mode # "super_heat" => r.mode = BandOfHour(r.hour_of_day)
            /\ inv.decided => r.mode = inv.mode_name

\* 10:00 strikes between the logger's mode lookup and its threshold lookup:
\* the record of a hot tank says daytime, carries the midday triple and
\* hour_of_day 10, while the decision was taken in daytime.
C36_FailingInput ==
    /\ inv.result = "returned"
    /\ getHours(inv.now) = 9 /\ getHours(clock) = 10
    /\ inv.payload = Payload(Num(61), Num(61), Num(61), Num(700))
    /\ inv.decided /\ inv.mode_name = "daytime"
    /\ inv.out2 # NoMsg
    /\ inv.out2.payload.mode = "daytime"
    /\ RecordTriple(inv.out2.payload) = Triple(config.modes.midday)
    /\ inv.out2.payload.hour_of_day = 10

(* C37  The current controller only adds vetoes to the legacy decision:    *)
(* for the same thresholds, element state, disable flag, uptime and        *)
(* readings, a command emitted by main() of solarnode.js is the command    *)
(* the legacy main() emits, and where the legacy main() emits a command    *)
(* and the current node emits none, the invocation was rate limited, the   *)
(* reading failed the sensor validation or the anti-cycling gate vetoed.   *)

\* The triple main() resolves for an invocation that runs at the current
\* clock value.
TripleInForce(g, i) ==
    IF i.decided THEN i.thresholds
    ELSE MainThresholds(OrDefault(g.super_heat, Num(0)), i.now, g).thresholds

LegacyCommand(g, i) ==
    LET legacy == legacyMain(g, i.payload, TripleInForce(g, i))
    IN  IF legacy.ret = "msg" THEN Msg(legacy.value) ELSE NoMsg

C37_OnlyAddsVetoes ==
    [][ inv'.result # "idle" =>
          /\ inv'.out1 # NoMsg => LegacyCommand(global, inv') = inv'.out1
          /\ ( inv'.out1 = NoMsg /\ LegacyCommand(global, inv') # NoMsg ) =>
                \/ inv'.result = "skipped"
                \/ SensorDataInvalid(inv'.payload.s2, inv'.payload.s3, inv'.payload.s4)
                \/ inv'.blocked ]_vars

\* A cold tank one second short of the interval after the element was
\* switched: the legacy controller would switch on, the gate vetoes.
C37_Witness ==
    /\ inv.result = "returned" /\ inv.decided /\ inv.blocked
    /\ inv.out1 = NoMsg
    /\ ElementReads(global, 0)
    /\ LegacyCommand(global, inv) = Msg(1)
    /\ inv.gate - LastSwitch(flow) = MinSwitchIntervalSeconds - 1

====
